---- MODULE Spec2Model ----
(***************************************************************************)
(* A model of absl::uint128 and absl::int128 (src/int128.h).               *)
(*                                                                         *)
(* The header builds in one of two ways: with ABSL_HAVE_INTRINSIC_INT128   *)
(* every operator forwards to the compiler's (unsigned) __int128, without  *)
(* it every operator is computed from two 64-bit limbs.  Both builds are   *)
(* modelled; every action applies one operator to the same operands in     *)
(* both builds and records the two results side by side (resI, resF).      *)
(*                                                                         *)
(* Widths are scaled: a half limb has HalfBits bits where the source has   *)
(* 32, a limb LimbBits = 2*HalfBits where the source has 64, and a value   *)
(* 2*LimbBits where the source has 128.  All arithmetic keeps its width:   *)
(* unsigned limb arithmetic is modulo 2^LimbBits, signed limb arithmetic   *)
(* that leaves [Int64Min, Int64Max] is undefined behaviour, and so on.     *)
(***************************************************************************)
EXTENDS Integers, FiniteSets, Sequences, TLC

VARIABLES
  a,        \* left operand, as a 128-bit pattern [hi, lo] of unsigned limbs
  b,        \* right operand, as a 128-bit pattern
  amount,   \* the int argument of a shift; the target width of a narrowing
  ndebug,   \* TRUE when the build defines NDEBUG (assert compiles to nothing)
  op,       \* the operator that was applied, "init" before any
  resF,     \* outcome in the build without ABSL_HAVE_INTRINSIC_INT128
  resI      \* outcome in the build with ABSL_HAVE_INTRINSIC_INT128

vars == <<a, b, amount, ndebug, op, resF, resI>>

----------------------------------------------------------------------------
(* Widths and limits *)

HalfBits == 2
LimbBits == 2 * HalfBits
WideBits == 2 * LimbBits

Pow2(n) == 2 ^ n

Uint64Max == Pow2(LimbBits) - 1
Int64Max == Pow2(LimbBits - 1) - 1
Int64Min == -Pow2(LimbBits - 1)
UWideMax == Pow2(WideBits) - 1
SWideMax == Pow2(WideBits - 1) - 1
SWideMin == -Pow2(WideBits - 1)

UInt64 == 0 .. Uint64Max

----------------------------------------------------------------------------
(* Native integer operations, as C++20 defines them *)

\* static_cast<uintN>(x): the value modulo 2^n
TruncU(x, n) == x % Pow2(n)

\* static_cast<intN>(x): the value congruent to x modulo 2^n in [-2^(n-1), 2^(n-1))
TruncS(x, n) ==
  LET m == x % Pow2(n) IN IF m >= Pow2(n - 1) THEN m - Pow2(n) ELSE m

Bit(x, i) == (x \div Pow2(i)) % 2

\* x & y, x | y and x ^ y of two non-negative integers, bit by bit
RECURSIVE BitAnd(_, _)
BitAnd(x, y) ==
  IF x = 0 \/ y = 0 THEN 0
  ELSE ((x % 2) * (y % 2)) + 2 * BitAnd(x \div 2, y \div 2)

RECURSIVE BitOr(_, _)
BitOr(x, y) ==
  IF x = 0 THEN y
  ELSE IF y = 0 THEN x
  ELSE (IF (x % 2) + (y % 2) > 0 THEN 1 ELSE 0) + 2 * BitOr(x \div 2, y \div 2)

RECURSIVE BitXor(_, _)
BitXor(x, y) ==
  IF x = 0 THEN y
  ELSE IF y = 0 THEN x
  ELSE (((x % 2) + (y % 2)) % 2) + 2 * BitXor(x \div 2, y \div 2)

\* uint64_t arithmetic: modulo 2^64
U64Add(x, y) == (x + y) % Pow2(LimbBits)
U64Sub(x, y) == (x - y) % Pow2(LimbBits)
U64Mul(x, y) == (x * y) % Pow2(LimbBits)
U64Not(x) == Uint64Max - x
U64And(x, y) == BitAnd(x, y)
U64Or(x, y) == BitOr(x, y)
U64Xor(x, y) == BitXor(x, y)
\* x << n and x >> n on uint64_t, defined for 0 <= n < 64; outside that range
\* the hardware's masked count stands for the value of an undefined shift
U64Shl(x, n) == (x * Pow2(n % LimbBits)) % Pow2(LimbBits)
U64Shr(x, n) == x \div Pow2(n % LimbBits)

\* int64_t seen as its two's-complement pattern and back
S64Pattern(x) == x % Pow2(LimbBits)
S64Not(x) == -x - 1
S64And(x, y) == TruncS(BitAnd(S64Pattern(x), S64Pattern(y)), LimbBits)
S64Or(x, y) == TruncS(BitOr(S64Pattern(x), S64Pattern(y)), LimbBits)
S64Xor(x, y) == TruncS(BitXor(S64Pattern(x), S64Pattern(y)), LimbBits)
\* C++20: x << n on int64_t is the value congruent to x * 2^n; x >> n is floor
S64Shl(x, n) == TruncS(x * Pow2(n % LimbBits), LimbBits)
S64Shr(x, n) == x \div Pow2(n % LimbBits)
\* int64_t + and -: the exact result; it is undefined when not an int64_t
S64Fits(x) == x >= Int64Min /\ x <= Int64Max

\* unsigned __int128 arithmetic: modulo 2^128
UWideAdd(x, y) == (x + y) % Pow2(WideBits)
UWideSub(x, y) == (x - y) % Pow2(WideBits)
UWideMul(x, y) == (x * y) % Pow2(WideBits)
UWideNeg(x) == (0 - x) % Pow2(WideBits)
UWideNot(x) == UWideMax - x
UWideShl(x, n) == (x * Pow2(n % WideBits)) % Pow2(WideBits)
UWideShr(x, n) == x \div Pow2(n % WideBits)
SWideFits(x) == x >= SWideMin /\ x <= SWideMax
SWidePattern(x) == x % Pow2(WideBits)
SWideShl(x, n) == TruncS(x * Pow2(n % WideBits), WideBits)
SWideShr(x, n) == x \div Pow2(n % WideBits)

----------------------------------------------------------------------------
(* Outcomes of an operator *)

Ok(v) == [st |-> "ok", hi |-> v.hi, lo |-> v.lo]
Native(x) == [st |-> "ok", hi |-> 0, lo |-> x]
Abort == [st |-> "abort", hi |-> 0, lo |-> 0]
Trap == [st |-> "trap", hi |-> 0, lo |-> 0]
None == [st |-> "none", hi |-> 0, lo |-> 0]

\* Undefined behaviour: the build may produce the wrapped value (the usual
\* machine code) or no value at all (-ftrapv, a sanitizer, constant evaluation).
Undefined(v) == {Ok(v), Trap}

----------------------------------------------------------------------------
(* uint128: limbs *)

MakeUint128(high, low) == [hi |-> high, lo |-> low]
Uint128Low64(v) == v.lo
Uint128High64(v) == v.hi

\* uint128::operator unsigned __int128
Uint128ToNative(v) == UWideAdd(UWideShl(v.hi, LimbBits), v.lo)

\* uint128::uint128(unsigned __int128 v)
Uint128FromNative(v) ==
  [lo |-> TruncU(BitAnd(v, Uint64Max), LimbBits),
   hi |-> TruncU(UWideShr(v, LimbBits), LimbBits)]

\* uint128::uint128(unsigned long long v)
Uint128FromU64(v) == [lo |-> v, hi |-> 0]

----------------------------------------------------------------------------
(* uint128: shifts, without the intrinsic *)

\* a slip: a shift by a limb or more leaves the low limb in place
UShlFallbackKeepsLow(lhs, n) ==
  IF n >= LimbBits
    THEN MakeUint128(U64Shl(Uint128Low64(lhs), n - LimbBits), Uint128Low64(lhs))
  ELSE IF n = 0 THEN lhs
  ELSE MakeUint128(U64Or(U64Shl(Uint128High64(lhs), n),
                         U64Shr(Uint128Low64(lhs), LimbBits - n)),
                   U64Shl(Uint128Low64(lhs), n))

UShlFallback(lhs, n) ==
  IF n >= LimbBits
    THEN MakeUint128(U64Shl(Uint128Low64(lhs), n - LimbBits), 0)
  ELSE IF n = 0 THEN lhs
  ELSE MakeUint128(U64Or(U64Shl(Uint128High64(lhs), n),
                         U64Shr(Uint128Low64(lhs), LimbBits - n)),
                   U64Shl(Uint128Low64(lhs), n))

\* a slip: the bits leaving the high limb are not moved into the low limb
UShrFallbackDropsHigh(lhs, n) ==
  IF n >= LimbBits
    THEN MakeUint128(0, U64Shr(Uint128High64(lhs), n - LimbBits))
  ELSE IF n = 0 THEN lhs
  ELSE MakeUint128(U64Shr(Uint128High64(lhs), n), U64Shr(Uint128Low64(lhs), n))

UShrFallback(lhs, n) ==
  IF n >= LimbBits
    THEN MakeUint128(0, U64Shr(Uint128High64(lhs), n - LimbBits))
  ELSE IF n = 0 THEN lhs
  ELSE MakeUint128(U64Shr(Uint128High64(lhs), n),
                   U64Or(U64Shr(Uint128Low64(lhs), n),
                         U64Shl(Uint128High64(lhs), LimbBits - n)))

UShlIntrinsic(lhs, n) == Uint128FromNative(UWideShl(Uint128ToNative(lhs), n))
UShrIntrinsic(lhs, n) == Uint128FromNative(UWideShr(Uint128ToNative(lhs), n))

----------------------------------------------------------------------------
(* uint128: + - *, without the intrinsic *)

\* a slip: the carry test admits equality, so adding a zero low limb carries
AddResultCarryOnEqual(result, lhs) ==
  IF Uint128Low64(result) <= Uint128Low64(lhs)
    THEN MakeUint128(U64Add(Uint128High64(result), 1), Uint128Low64(result))
    ELSE result

AddResult(result, lhs) ==
  IF Uint128Low64(result) < Uint128Low64(lhs)
    THEN MakeUint128(U64Add(Uint128High64(result), 1), Uint128Low64(result))
    ELSE result

UAddFallback(lhs, rhs) ==
  AddResult(MakeUint128(U64Add(Uint128High64(lhs), Uint128High64(rhs)),
                        U64Add(Uint128Low64(lhs), Uint128Low64(rhs))),
            lhs)

\* a slip: equal low limbs are taken for a borrow
SubstructResultBorrowOnEqual(result, lhs, rhs) ==
  IF Uint128Low64(lhs) <= Uint128Low64(rhs)
    THEN MakeUint128(U64Sub(Uint128High64(result), 1), Uint128Low64(result))
    ELSE result

SubstructResult(result, lhs, rhs) ==
  IF Uint128Low64(lhs) < Uint128Low64(rhs)
    THEN MakeUint128(U64Sub(Uint128High64(result), 1), Uint128Low64(result))
    ELSE result

USubFallback(lhs, rhs) ==
  SubstructResult(MakeUint128(U64Sub(Uint128High64(lhs), Uint128High64(rhs)),
                              U64Sub(Uint128Low64(lhs), Uint128Low64(rhs))),
                  lhs, rhs)

\* a slip: the second cross term a00 * b32 is left out
UMulFallbackOneCross(lhs, rhs) ==
  LET a32 == U64Shr(Uint128Low64(lhs), HalfBits)
      a00 == U64And(Uint128Low64(lhs), Pow2(HalfBits) - 1)
      b32 == U64Shr(Uint128Low64(rhs), HalfBits)
      b00 == U64And(Uint128Low64(rhs), Pow2(HalfBits) - 1)
      r0 == MakeUint128(
              U64Add(U64Add(U64Mul(Uint128High64(lhs), Uint128Low64(rhs)),
                            U64Mul(Uint128Low64(lhs), Uint128High64(rhs))),
                     U64Mul(a32, b32)),
              U64Mul(a00, b00))
  IN UAddFallback(r0, UShlFallback(Uint128FromU64(U64Mul(a32, b00)), HalfBits))

UMulFallback(lhs, rhs) ==
  LET a32 == U64Shr(Uint128Low64(lhs), HalfBits)
      a00 == U64And(Uint128Low64(lhs), Pow2(HalfBits) - 1)
      b32 == U64Shr(Uint128Low64(rhs), HalfBits)
      b00 == U64And(Uint128Low64(rhs), Pow2(HalfBits) - 1)
      r0 == MakeUint128(
              U64Add(U64Add(U64Mul(Uint128High64(lhs), Uint128Low64(rhs)),
                            U64Mul(Uint128Low64(lhs), Uint128High64(rhs))),
                     U64Mul(a32, b32)),
              U64Mul(a00, b00))
      r1 == UAddFallback(r0, UShlFallback(Uint128FromU64(U64Mul(a32, b00)), HalfBits))
      r2 == UAddFallback(r1, UShlFallback(Uint128FromU64(U64Mul(a00, b32)), HalfBits))
  IN r2

\* a slip: the carry into the high limb when the low limb is zero is dropped
UNegFallbackNoCarry(val) ==
  MakeUint128(U64Not(Uint128High64(val)), U64Add(U64Not(Uint128Low64(val)), 1))

\* a slip: the carry into the high limb is added when the low limb is not zero
UNegFallbackCarryOnNonZero(val) ==
  MakeUint128(U64Add(U64Not(Uint128High64(val)),
                     IF Uint128Low64(val) # 0 THEN 1 ELSE 0),
              U64Add(U64Not(Uint128Low64(val)), 1))

\* operator-(uint128)
UNegFallback(val) ==
  MakeUint128(U64Add(U64Not(Uint128High64(val)),
                     IF Uint128Low64(val) = 0 THEN 1 ELSE 0),
              U64Add(U64Not(Uint128Low64(val)), 1))

(* uint128: + - *, with the intrinsic *)

UAddIntrinsic(lhs, rhs) ==
  Uint128FromNative(UWideAdd(Uint128ToNative(lhs), Uint128ToNative(rhs)))

USubIntrinsic(lhs, rhs) ==
  Uint128FromNative(UWideSub(Uint128ToNative(lhs), Uint128ToNative(rhs)))

UMulIntrinsic(lhs, rhs) ==
  Uint128FromNative(UWideMul(Uint128ToNative(lhs), Uint128ToNative(rhs)))

UNegIntrinsic(val) == Uint128FromNative(UWideNeg(Uint128ToNative(val)))

----------------------------------------------------------------------------
(* int128: limbs.  Without the intrinsic an int128 is [hi, lo] with hi an  *)
(* int64_t and lo a uint64_t; with it, an int128 is one __int128, v.       *)

\* int128_internal::BitCastToSigned(uint64_t)
BitCastToSigned(v) ==
  IF U64And(v, Pow2(LimbBits - 1)) # 0
    THEN S64Not(TruncS(U64Not(v), LimbBits))
    ELSE TruncS(v, LimbBits)

\* int128_internal::BitCastToSigned(unsigned __int128)
BitCastToSignedWide(v) ==
  IF BitAnd(v, Pow2(WideBits - 1)) # 0
    THEN -TruncS(UWideNot(v), WideBits) - 1
    ELSE TruncS(v, WideBits)

\* without the intrinsic
MakeInt128(high, low) == [hi |-> high, lo |-> low]
Int128Low64(v) == v.lo
Int128High64(v) == v.hi

\* a slip: the low limb is widened as a signed integer before it is or-ed in
MakeInt128IntrinsicSignedLow(high, low) ==
  [v |-> TruncS(UWideShl(TruncU(high, WideBits), LimbBits), WideBits)
         + TruncS(low, LimbBits)]

\* with the intrinsic: int128::int128(int64_t high, uint64_t low)
MakeInt128Intrinsic(high, low) ==
  [v |-> TruncS(BitOr(SWidePattern(BitCastToSignedWide(
                        UWideShl(TruncU(high, WideBits), LimbBits))),
                      low),
                WideBits)]

Int128Low64Intrinsic(x) ==
  TruncU(BitAnd(SWidePattern(x.v), Uint64Max), LimbBits)

Int128High64Intrinsic(x) ==
  BitCastToSigned(TruncU(UWideShr(TruncU(x.v, WideBits), LimbBits), LimbBits))

\* int128::int128(__int128 v), the conversion every intrinsic operator ends with
Int128FromNative(x) == [v |-> x]

\* the limbs of a result, as the accessors of each build report them
LimbsF(x) == [hi |-> Int128High64(x), lo |-> Int128Low64(x)]
LimbsI(x) == [hi |-> Int128High64Intrinsic(x), lo |-> Int128Low64Intrinsic(x)]

\* the int128 of each build that has the bits of pattern p
SignedF(p) == MakeInt128(BitCastToSigned(p.hi), p.lo)
SignedI(p) == MakeInt128Intrinsic(BitCastToSigned(p.hi), p.lo)

----------------------------------------------------------------------------
(* int128: shifts *)

\* assert(amount >= 0 && amount < 127), compiled in unless NDEBUG is defined
ShiftAssert(n) == n >= 0 /\ n < WideBits - 1

SShlFallback(lhs, n) ==
  IF n <= 0 THEN lhs
  ELSE IF n < LimbBits - 1 THEN
    MakeInt128(S64Or(S64Shl(Int128High64(lhs), n),
                     TruncS(U64Shr(Int128Low64(lhs), LimbBits - n), LimbBits)),
               U64Shl(Int128Low64(lhs), n))
  ELSE IF n = LimbBits - 1 THEN
    MakeInt128(S64Or(S64Shl(S64Shl(Int128High64(lhs), HalfBits), HalfBits - 1),
                     TruncS(U64Shr(Int128Low64(lhs), 1), LimbBits)),
               U64Shl(U64Shl(Int128Low64(lhs), HalfBits), HalfBits - 1))
  ELSE IF n = WideBits - 1 THEN
    MakeInt128(TruncS(U64Shl(Int128Low64(lhs), LimbBits - 1), LimbBits), 0)
  ELSE IF n > WideBits - 1 THEN
    MakeInt128(0, 0)
  ELSE
    MakeInt128(TruncS(U64Shl(Int128Low64(lhs), n - LimbBits), LimbBits), 0)

SShrFallback(lhs, n) ==
  IF n <= 0 THEN lhs
  ELSE IF n < LimbBits - 1 THEN
    MakeInt128(S64Shr(Int128High64(lhs), n),
               U64Or(U64Shr(Int128Low64(lhs), n),
                     U64Shl(TruncU(Int128High64(lhs), LimbBits), LimbBits - n)))
  ELSE IF n = LimbBits - 1 THEN
    MakeInt128(S64Shr(S64Shr(Int128High64(lhs), HalfBits), HalfBits - 1),
               U64Or(TruncU(S64Shl(Int128High64(lhs), 1), LimbBits),
                     U64Shr(U64Shr(Int128Low64(lhs), HalfBits), HalfBits - 1)))
  ELSE IF n >= WideBits - 1 THEN
    MakeInt128(S64Shr(S64Shr(Int128High64(lhs), HalfBits), HalfBits - 1),
               TruncU(S64Shr(S64Shr(Int128High64(lhs), HalfBits), HalfBits - 1),
                      LimbBits))
  ELSE
    MakeInt128(S64Shr(S64Shr(Int128High64(lhs), HalfBits), HalfBits - 1),
               TruncU(S64Shr(Int128High64(lhs), n - LimbBits), LimbBits))

\* a shift of a 64-bit limb is defined for a count in [0, 63]
LimbShiftDefined(c) == c >= 0 /\ c < LimbBits

\* the counts of the 64-bit shifts that each band of operator<<(int128, int)
\* and of operator>>(int128, int) executes
SShlShiftCounts(n) ==
  IF n <= 0 THEN {}
  ELSE IF n < LimbBits - 1 THEN {n, LimbBits - n}
  ELSE IF n = LimbBits - 1 THEN {HalfBits, HalfBits - 1, 1}
  ELSE IF n = WideBits - 1 THEN {LimbBits - 1}
  ELSE IF n > WideBits - 1 THEN {}
  ELSE {n - LimbBits}

SShrShiftCounts(n) ==
  IF n <= 0 THEN {}
  ELSE IF n < LimbBits - 1 THEN {n, LimbBits - n}
  ELSE IF n = LimbBits - 1 THEN {HalfBits, HalfBits - 1, 1}
  ELSE IF n >= WideBits - 1 THEN {HalfBits, HalfBits - 1}
  ELSE {HalfBits, HalfBits - 1, n - LimbBits}

\* the outcome of the operator in a build with or without NDEBUG
SShlFallbackOutcomes(lhs, n, nd) ==
  IF ~nd /\ ~ShiftAssert(n) THEN {Abort}
  ELSE IF \A c \in SShlShiftCounts(n) : LimbShiftDefined(c)
    THEN {Ok(LimbsF(SShlFallback(lhs, n)))}
    ELSE Undefined(LimbsF(SShlFallback(lhs, n)))

SShrFallbackOutcomes(lhs, n, nd) ==
  IF ~nd /\ ~ShiftAssert(n) THEN {Abort}
  ELSE IF \A c \in SShrShiftCounts(n) : LimbShiftDefined(c)
    THEN {Ok(LimbsF(SShrFallback(lhs, n)))}
    ELSE Undefined(LimbsF(SShrFallback(lhs, n)))

\* __int128 << and >> are defined for 0 <= amount < 128
NativeShiftDefined(n) == n >= 0 /\ n < WideBits

SShlIntrinsic(lhs, n) == Int128FromNative(SWideShl(lhs.v, n))
SShrIntrinsic(lhs, n) == Int128FromNative(SWideShr(lhs.v, n))

SShlIntrinsicOutcomes(lhs, n) ==
  IF NativeShiftDefined(n) THEN {Ok(LimbsI(SShlIntrinsic(lhs, n)))}
  ELSE Undefined(LimbsI(SShlIntrinsic(lhs, n)))

SShrIntrinsicOutcomes(lhs, n) ==
  IF NativeShiftDefined(n) THEN {Ok(LimbsI(SShrIntrinsic(lhs, n)))}
  ELSE Undefined(LimbsI(SShrIntrinsic(lhs, n)))

(* uint128: the 64-bit shift counts an amount leads to, and the outcomes *)

\* a slip: amount 0 is not special-cased and shifts a limb by 64 - 0
UShiftCountsNoZeroCase(n) ==
  IF n >= LimbBits THEN {n - LimbBits}
  ELSE {n, LimbBits - n}

UShiftCounts(n) ==
  IF n >= LimbBits THEN {n - LimbBits}
  ELSE IF n = 0 THEN {}
  ELSE {n, LimbBits - n}

UShlFallbackOutcomes(lhs, n) ==
  IF \A c \in UShiftCounts(n) : LimbShiftDefined(c)
    THEN {Ok(UShlFallback(lhs, n))}
    ELSE Undefined(UShlFallback(lhs, n))

UShrFallbackOutcomes(lhs, n) ==
  IF \A c \in UShiftCounts(n) : LimbShiftDefined(c)
    THEN {Ok(UShrFallback(lhs, n))}
    ELSE Undefined(UShrFallback(lhs, n))

UShlIntrinsicOutcomes(lhs, n) ==
  IF NativeShiftDefined(n) THEN {Ok(UShlIntrinsic(lhs, n))}
  ELSE Undefined(UShlIntrinsic(lhs, n))

UShrIntrinsicOutcomes(lhs, n) ==
  IF NativeShiftDefined(n) THEN {Ok(UShrIntrinsic(lhs, n))}
  ELSE Undefined(UShrIntrinsic(lhs, n))

----------------------------------------------------------------------------
(* Conversions between uint128 and int128 *)

\* uint128::uint128(int128 v), in each build
Uint128FromInt128F(v) ==
  [lo |-> Int128Low64(v), hi |-> TruncU(Int128High64(v), LimbBits)]

Uint128FromInt128I(v) ==
  [lo |-> Int128Low64Intrinsic(v), hi |-> TruncU(Int128High64Intrinsic(v), LimbBits)]

\* uint128::operator __int128
Uint128ToNativeSigned(v) == SWideShl(v.hi, LimbBits) + v.lo

\* a slip: a high limb above INT64_MAX is clamped instead of reinterpreted
Int128FromUint128FSaturating(v) ==
  [lo |-> Uint128Low64(v),
   hi |-> IF Uint128High64(v) > Int64Max THEN Int64Max ELSE Uint128High64(v)]

\* int128::int128(uint128 v), in each build
Int128FromUint128F(v) ==
  [lo |-> Uint128Low64(v), hi |-> TruncS(Uint128High64(v), LimbBits)]

Int128FromUint128I(v) == [v |-> Uint128ToNativeSigned(v)]

----------------------------------------------------------------------------
(* Conversions to a native integer type of w <= 64 bits *)

\* a slip: the limbs are taken in the other byte order
Uint128ToUnsignedOfHigh(v, w) == TruncU(v.hi, w)

\* uint128::operator T(): static_cast<T>(lo_), T unsigned or signed
Uint128ToUnsigned(v, w) == TruncU(v.lo, w)
Uint128ToSigned(v, w) == TruncS(v.lo, w)

\* int128::operator long long(), without the intrinsic
Int128ToLongLongF(v) == BitCastToSigned(v.lo)

\* int128::operator T(), without the intrinsic: static_cast<T>(lo_) for the
\* unsigned types, static_cast<T>(static_cast<long long>(*this)) for char,
\* signed char, wchar_t, short, int and long
Int128ToUnsignedF(v, w) == TruncU(v.lo, w)
Int128ToSignedF(v, w) ==
  IF w = LimbBits THEN Int128ToLongLongF(v) ELSE TruncS(Int128ToLongLongF(v), w)
\* char and wchar_t where the platform makes them unsigned
Int128ToPlainF(v, w) == TruncU(Int128ToLongLongF(v), w)

\* int128::operator T(), with the intrinsic: static_cast<T>(v_)
Int128ToUnsignedI(x, w) == TruncU(x.v, w)
Int128ToSignedI(x, w) == TruncS(x.v, w)

----------------------------------------------------------------------------
(* int128: unary -, + - *, without the intrinsic.  The high limb is an     *)
(* int64_t: each operator below gives the value the usual two's-complement *)
(* machine code produces, and its ...Defined twin tells whether every      *)
(* int64_t addition and subtraction it executes stays within int64_t.      *)

S64Wrap(x) == TruncS(x, LimbBits)

SNegFallback(v) ==
  MakeInt128(S64Wrap(S64Not(Int128High64(v)) + (IF Int128Low64(v) = 0 THEN 1 ELSE 0)),
             U64Add(U64Not(Int128Low64(v)), 1))

SNegFallbackDefined(v) ==
  S64Fits(S64Not(Int128High64(v)) + (IF Int128Low64(v) = 0 THEN 1 ELSE 0))

\* a slip: the carry out of the low limb is dropped
SignedAddResultNoCarry(result, lhs) == result

SignedAddResult(result, lhs) ==
  IF Int128Low64(result) < Int128Low64(lhs)
    THEN MakeInt128(S64Wrap(Int128High64(result) + 1), Int128Low64(result))
    ELSE result

SAddFallback(lhs, rhs) ==
  SignedAddResult(
    MakeInt128(S64Wrap(Int128High64(lhs) + Int128High64(rhs)),
               U64Add(Int128Low64(lhs), Int128Low64(rhs))),
    lhs)

SAddFallbackDefined(lhs, rhs) ==
  /\ S64Fits(Int128High64(lhs) + Int128High64(rhs))
  /\ U64Add(Int128Low64(lhs), Int128Low64(rhs)) < Int128Low64(lhs)
       => S64Fits(Int128High64(lhs) + Int128High64(rhs) + 1)

SignedSubstructResult(result, lhs, rhs) ==
  IF Int128Low64(lhs) < Int128Low64(rhs)
    THEN MakeInt128(S64Wrap(Int128High64(result) - 1), Int128Low64(result))
    ELSE result

SSubFallback(lhs, rhs) ==
  SignedSubstructResult(
    MakeInt128(S64Wrap(Int128High64(lhs) - Int128High64(rhs)),
               U64Sub(Int128Low64(lhs), Int128Low64(rhs))),
    lhs, rhs)

SSubFallbackDefined(lhs, rhs) ==
  /\ S64Fits(Int128High64(lhs) - Int128High64(rhs))
  /\ Int128Low64(lhs) < Int128Low64(rhs)
       => S64Fits(Int128High64(lhs) - Int128High64(rhs) - 1)

\* a slip: the sign of the product is taken from the operands' high limbs
\* instead of from the top bit of the unsigned product
SMulFallbackSignOfOperands(lhs, rhs) ==
  LET product == UMulFallback(Uint128FromInt128F(lhs), Uint128FromInt128F(rhs))
      negative == (Int128High64(lhs) < 0) # (Int128High64(rhs) < 0)
      magnitude == Uint128High64(product) % Pow2(LimbBits - 1)
  IN MakeInt128(IF negative THEN magnitude - Pow2(LimbBits - 1) ELSE magnitude,
                Uint128Low64(product))

SMulFallback(lhs, rhs) ==
  LET product == UMulFallback(Uint128FromInt128F(lhs), Uint128FromInt128F(rhs))
  IN MakeInt128(BitCastToSigned(Uint128High64(product)), Uint128Low64(product))

(* int128: unary -, + - *, with the intrinsic: __int128 arithmetic, which  *)
(* is undefined when the exact result is not an __int128                   *)

SWideWrap(x) == TruncS(x, WideBits)

SNegIntrinsic(x) == Int128FromNative(SWideWrap(-x.v))
SNegIntrinsicDefined(x) == SWideFits(-x.v)
SAddIntrinsic(x, y) == Int128FromNative(SWideWrap(x.v + y.v))
SAddIntrinsicDefined(x, y) == SWideFits(x.v + y.v)
SSubIntrinsic(x, y) == Int128FromNative(SWideWrap(x.v - y.v))
SSubIntrinsicDefined(x, y) == SWideFits(x.v - y.v)
SMulIntrinsic(x, y) == Int128FromNative(SWideWrap(x.v * y.v))
SMulIntrinsicDefined(x, y) == SWideFits(x.v * y.v)

\* the outcomes of an operator whose value is v and which is defined iff d
Outcomes(d, v) == IF d THEN {Ok(v)} ELSE Undefined(v)

----------------------------------------------------------------------------
(* Operands *)

\* every 128-bit pattern
Patterns == [hi : UInt64, lo : UInt64]

\* limbs at the edges of the half-limb, the sign bit and the limb
EdgeLimbs ==
  {0, 1, 2, Pow2(HalfBits) - 1, Pow2(HalfBits), Int64Max, Int64Max + 1, Uint64Max}

EdgePatterns == [hi : EdgeLimbs, lo : EdgeLimbs]

Zero == MakeUint128(0, 0)

----------------------------------------------------------------------------
(* Unsigned arithmetic: a op b for every a and every edge b *)

Init ==
  /\ a \in Patterns
  /\ b \in EdgePatterns
  /\ amount = 0
  /\ ndebug = TRUE
  /\ op = "init"
  /\ resF = None
  /\ resI = None

UAdd ==
  /\ op = "init"
  /\ op' = "uadd"
  /\ resF' = Ok(UAddFallback(a, b))
  /\ resI' = Ok(UAddIntrinsic(a, b))
  /\ UNCHANGED <<a, b, amount, ndebug>>

USub ==
  /\ op = "init"
  /\ op' = "usub"
  /\ resF' = Ok(USubFallback(a, b))
  /\ resI' = Ok(USubIntrinsic(a, b))
  /\ UNCHANGED <<a, b, amount, ndebug>>

UMul ==
  /\ op = "init"
  /\ op' = "umul"
  /\ resF' = Ok(UMulFallback(a, b))
  /\ resI' = Ok(UMulIntrinsic(a, b))
  /\ UNCHANGED <<a, b, amount, ndebug>>

Next == UAdd \/ USub \/ UMul

Spec == Init /\ [][Next]_vars

----------------------------------------------------------------------------
(* Shifts: a << amount and a >> amount, for every a and every amount from  *)
(* one below to one above the range of the type, in debug and NDEBUG builds *)

Amounts == -1 .. WideBits + 1

InitShift ==
  /\ a \in Patterns
  /\ b = Zero
  /\ amount \in Amounts
  /\ ndebug \in BOOLEAN
  /\ op = "init"
  /\ resF = None
  /\ resI = None

UShl ==
  /\ op = "init"
  /\ op' = "ushl"
  /\ resF' \in UShlFallbackOutcomes(a, amount)
  /\ resI' \in UShlIntrinsicOutcomes(a, amount)
  /\ UNCHANGED <<a, b, amount, ndebug>>

UShr ==
  /\ op = "init"
  /\ op' = "ushr"
  /\ resF' \in UShrFallbackOutcomes(a, amount)
  /\ resI' \in UShrIntrinsicOutcomes(a, amount)
  /\ UNCHANGED <<a, b, amount, ndebug>>

SShl ==
  /\ op = "init"
  /\ op' = "sshl"
  /\ resF' \in SShlFallbackOutcomes(SignedF(a), amount, ndebug)
  /\ resI' \in SShlIntrinsicOutcomes(SignedI(a), amount)
  /\ UNCHANGED <<a, b, amount, ndebug>>

SShr ==
  /\ op = "init"
  /\ op' = "sshr"
  /\ resF' \in SShrFallbackOutcomes(SignedF(a), amount, ndebug)
  /\ resI' \in SShrIntrinsicOutcomes(SignedI(a), amount)
  /\ UNCHANGED <<a, b, amount, ndebug>>

NextShift == UShl \/ UShr \/ SShl \/ SShr

SpecShift == InitShift /\ [][NextShift]_vars

----------------------------------------------------------------------------
(* Signed addition, subtraction and negation: -a and a op b for every a and *)
(* every edge b                                                            *)

InitSigned ==
  /\ a \in Patterns
  /\ b \in EdgePatterns
  /\ amount = 0
  /\ ndebug = TRUE
  /\ op = "init"
  /\ resF = None
  /\ resI = None

SNeg ==
  /\ op = "init"
  /\ b = Zero
  /\ op' = "sneg"
  /\ LET x == SignedF(a)
     IN resF' \in Outcomes(SNegFallbackDefined(x), LimbsF(SNegFallback(x)))
  /\ LET x == SignedI(a)
     IN resI' \in Outcomes(SNegIntrinsicDefined(x), LimbsI(SNegIntrinsic(x)))
  /\ UNCHANGED <<a, b, amount, ndebug>>

SAdd ==
  /\ op = "init"
  /\ op' = "sadd"
  /\ LET x == SignedF(a)
         y == SignedF(b)
     IN resF' \in Outcomes(SAddFallbackDefined(x, y), LimbsF(SAddFallback(x, y)))
  /\ LET x == SignedI(a)
         y == SignedI(b)
     IN resI' \in Outcomes(SAddIntrinsicDefined(x, y), LimbsI(SAddIntrinsic(x, y)))
  /\ UNCHANGED <<a, b, amount, ndebug>>

SSub ==
  /\ op = "init"
  /\ op' = "ssub"
  /\ LET x == SignedF(a)
         y == SignedF(b)
     IN resF' \in Outcomes(SSubFallbackDefined(x, y), LimbsF(SSubFallback(x, y)))
  /\ LET x == SignedI(a)
         y == SignedI(b)
     IN resI' \in Outcomes(SSubIntrinsicDefined(x, y), LimbsI(SSubIntrinsic(x, y)))
  /\ UNCHANGED <<a, b, amount, ndebug>>

SMul ==
  /\ op = "init"
  /\ op' = "smul"
  /\ resF' = Ok(LimbsF(SMulFallback(SignedF(a), SignedF(b))))
  /\ LET x == SignedI(a)
         y == SignedI(b)
     IN resI' \in Outcomes(SMulIntrinsicDefined(x, y), LimbsI(SMulIntrinsic(x, y)))
  /\ UNCHANGED <<a, b, amount, ndebug>>

NextSigned == SNeg \/ SAdd \/ SSub

SpecSigned == InitSigned /\ [][NextSigned]_vars

(* Signed multiplication: a * b for every a and every edge b *)

NextSignedMul == SMul

SpecSignedMul == InitSigned /\ [][NextSignedMul]_vars

----------------------------------------------------------------------------
(* Conversions: of every a, to the sibling 128-bit type and back, and to    *)
(* every native integer width (amount) of either signedness                *)

Widths == 1 .. LimbBits

InitConv ==
  /\ a \in Patterns
  /\ b = Zero
  /\ amount \in Widths
  /\ ndebug = TRUE
  /\ op = "init"
  /\ resF = None
  /\ resI = None

\* uint128(x) for the int128 x with the bits of a
SToU ==
  /\ op = "init"
  /\ amount = LimbBits
  /\ op' = "stou"
  /\ resF' = Ok(Uint128FromInt128F(SignedF(a)))
  /\ resI' = Ok(Uint128FromInt128I(SignedI(a)))
  /\ UNCHANGED <<a, b, amount, ndebug>>

\* int128(y) for the uint128 y = a
UToS ==
  /\ op = "init"
  /\ amount = LimbBits
  /\ op' = "utos"
  /\ resF' = Ok(LimbsF(Int128FromUint128F(a)))
  /\ resI' = Ok(LimbsI(Int128FromUint128I(a)))
  /\ UNCHANGED <<a, b, amount, ndebug>>

\* int128(uint128(x)) for the int128 x with the bits of a
SRoundTrip ==
  /\ op = "init"
  /\ amount = LimbBits
  /\ op' = "stous"
  /\ resF' = Ok(LimbsF(Int128FromUint128F(Uint128FromInt128F(SignedF(a)))))
  /\ resI' = Ok(LimbsI(Int128FromUint128I(Uint128FromInt128I(SignedI(a)))))
  /\ UNCHANGED <<a, b, amount, ndebug>>

\* uint128(int128(y)) for the uint128 y = a
URoundTrip ==
  /\ op = "init"
  /\ amount = LimbBits
  /\ op' = "utosu"
  /\ resF' = Ok(Uint128FromInt128F(Int128FromUint128F(a)))
  /\ resI' = Ok(Uint128FromInt128I(Int128FromUint128I(a)))
  /\ UNCHANGED <<a, b, amount, ndebug>>

\* static_cast<T>(y), y the uint128 a; uint128 is the same class in both builds
UNarrowUnsigned ==
  /\ op = "init"
  /\ op' = "u_to_unsigned"
  /\ resF' = Native(Uint128ToUnsigned(a, amount))
  /\ resI' = Native(Uint128ToUnsigned(a, amount))
  /\ UNCHANGED <<a, b, amount, ndebug>>

UNarrowSigned ==
  /\ op = "init"
  /\ op' = "u_to_signed"
  /\ resF' = Native(Uint128ToSigned(a, amount))
  /\ resI' = Native(Uint128ToSigned(a, amount))
  /\ UNCHANGED <<a, b, amount, ndebug>>

\* static_cast<T>(x), x the int128 with the bits of a
SNarrowUnsigned ==
  /\ op = "init"
  /\ op' = "s_to_unsigned"
  /\ resF' \in {Native(Int128ToUnsignedF(SignedF(a), amount)),
                Native(Int128ToPlainF(SignedF(a), amount))}
  /\ resI' = Native(Int128ToUnsignedI(SignedI(a), amount))
  /\ UNCHANGED <<a, b, amount, ndebug>>

SNarrowSigned ==
  /\ op = "init"
  /\ op' = "s_to_signed"
  /\ resF' = Native(Int128ToSignedF(SignedF(a), amount))
  /\ resI' = Native(Int128ToSignedI(SignedI(a), amount))
  /\ UNCHANGED <<a, b, amount, ndebug>>

NextConv ==
  \/ SToU \/ UToS \/ SRoundTrip \/ URoundTrip
  \/ UNarrowUnsigned \/ UNarrowSigned \/ SNarrowUnsigned \/ SNarrowSigned

SpecConv == InitConv /\ [][NextConv]_vars

----------------------------------------------------------------------------
(* The numeric value of a pattern *)

\* of a uint128 result or operand: high * 2^64 + low, both limbs unsigned
UValue(v) == v.hi * Pow2(LimbBits) + v.lo

\* of an int128 result: high * 2^64 + low with high signed
SValue(v) == v.hi * Pow2(LimbBits) + v.lo

\* of an operand pattern read as an int128 (two's complement)
SValueOf(p) == IF p.hi > Int64Max THEN UValue(p) - Pow2(WideBits) ELSE UValue(p)


----------------------------------------------------------------------------
(* Claims *)

\* C1: for all uint128 a, b, a + b is (a + b) mod 2^128 and a - b is
\* (a - b) mod 2^128, the value being high * 2^64 + low; overflow and
\* underflow wrap and are never an error.  Checked of both builds.
C1_AddSubWrap ==
  /\ op = "uadd" =>
       /\ resF.st = "ok" /\ resI.st = "ok"
       /\ UValue(resF) = (UValue(a) + UValue(b)) % Pow2(WideBits)
       /\ UValue(resI) = (UValue(a) + UValue(b)) % Pow2(WideBits)
  /\ op = "usub" =>
       /\ resF.st = "ok" /\ resI.st = "ok"
       /\ UValue(resF) = (UValue(a) - UValue(b)) % Pow2(WideBits)
       /\ UValue(resI) = (UValue(a) - UValue(b)) % Pow2(WideBits)

\* an addition that carries out of the low limb and out of the high limb
C1_Witness ==
  /\ op = "uadd"
  /\ a.lo + b.lo > Uint64Max
  /\ UValue(a) + UValue(b) > UWideMax
  /\ resF.st = "ok"
  /\ UValue(resF) = UValue(a) + UValue(b) - Pow2(WideBits)

\* C2: for all uint128 a, b, the multiplication built from half-limb partial
\* products returns exactly (a * b) mod 2^128; in particular
\* MakeUint128(0, max) * MakeUint128(0, 2) = MakeUint128(1, max - 1).
C2_MulTruncates ==
  op = "umul" =>
    /\ resF.st = "ok"
    /\ UValue(resF) = (UValue(a) * UValue(b)) % Pow2(WideBits)
    /\ (a = MakeUint128(0, Uint64Max) /\ b = MakeUint128(0, 2))
         => resF = Ok(MakeUint128(1, Uint64Max - 1))

\* the product of the example, which carries from the low limb into the high
C2_Witness ==
  /\ op = "umul"
  /\ a = MakeUint128(0, Uint64Max)
  /\ b = MakeUint128(0, 2)
  /\ resF = Ok(MakeUint128(1, Uint64Max - 1))

\* C4: for every uint128 a and every amount in [0, 127], a << amount is
\* (a * 2^amount) mod 2^128 and a >> amount is floor(a / 2^amount); amount 0
\* returns a unchanged for both shifts.  Checked of both builds.
C4_LogicalShift ==
  /\ (op = "ushl" /\ amount \in 0 .. WideBits - 1) =>
       /\ resF.st = "ok" /\ resI.st = "ok"
       /\ UValue(resF) = (UValue(a) * Pow2(amount)) % Pow2(WideBits)
       /\ UValue(resI) = (UValue(a) * Pow2(amount)) % Pow2(WideBits)
       /\ amount = 0 => (resF = Ok(a) /\ resI = Ok(a))
  /\ (op = "ushr" /\ amount \in 0 .. WideBits - 1) =>
       /\ resF.st = "ok" /\ resI.st = "ok"
       /\ UValue(resF) = UValue(a) \div Pow2(amount)
       /\ UValue(resI) = UValue(a) \div Pow2(amount)
       /\ amount = 0 => (resF = Ok(a) /\ resI = Ok(a))

\* a right shift that moves bits of the high limb into the low limb and
\* fills the top with zeros although the top bit of a is set
C4_Witness ==
  /\ op = "ushr"
  /\ amount \in 1 .. LimbBits - 1
  /\ a.hi > Int64Max
  /\ resF.st = "ok"
  /\ resF.hi = a.hi \div Pow2(amount)
  /\ resF.lo # a.lo \div Pow2(amount)

\* C5: for every int128 x and every amount in [0, 127], x >> amount is
\* floor(x / 2^amount); in particular Int128Min() >> 127 = -1 and a
\* non-negative x >> 127 = 0.  Stated of every build.
C5_ArithmeticShift ==
  (op = "sshr" /\ amount \in 0 .. WideBits - 1) =>
    /\ resF.st = "ok" /\ resI.st = "ok"
    /\ SValue(resF) = SValueOf(a) \div Pow2(amount)
    /\ SValue(resI) = SValueOf(a) \div Pow2(amount)

\* C6: without the intrinsic, the debug-build assertion of operator<< and
\* operator>> on int128 holds for every amount in [0, 127] and fails only for
\* amounts outside [0, 127].
C6_AssertRange ==
  (op \in {"sshl", "sshr"} /\ ~ndebug) =>
    (resF.st = "abort" <=> amount \notin 0 .. WideBits - 1)

\* the exact result of a signed arithmetic operator on the operands
SExact ==
  CASE op = "sadd" -> SValueOf(a) + SValueOf(b)
    [] op = "ssub" -> SValueOf(a) - SValueOf(b)
    [] op = "sneg" -> -SValueOf(a)
    [] op = "smul" -> SValueOf(a) * SValueOf(b)
    [] OTHER -> 0

\* the operands are ones the operator is defined on: a shift amount in
\* [0, 127], a signed result that an int128 can hold
OperationDefined ==
  /\ op \in {"ushl", "ushr", "sshl", "sshr"} => amount \in 0 .. WideBits - 1
  /\ op \in {"sadd", "ssub", "sneg", "smul"} => SWideFits(SExact)

\* the (high, low) pattern of an outcome that holds an int128
PatternOf(r) == MakeUint128(S64Pattern(r.hi), r.lo)

\* C3: for every operation and every input on which it is defined, the build
\* with the intrinsic and the build without return identical (high, low) limbs.
C3_BuildsAgree ==
  (op # "init" /\ OperationDefined) => resF = resI

\* C7: for all int128 a, b, the patterns of a + b, a - b and -a are those of
\* uint128(a) + uint128(b), uint128(a) - uint128(b) and -uint128(a): signed
\* addition, subtraction and negation wrap modulo 2^128 (Int128Max() + 1 =
\* Int128Min(), -Int128Min() = Int128Min()).
C7_SignedWraps ==
  /\ op = "sadd" => (resF.st = "ok" /\ PatternOf(resF) = UAddFallback(a, b))
  /\ op = "ssub" => (resF.st = "ok" /\ PatternOf(resF) = USubFallback(a, b))
  /\ op = "sneg" => (resF.st = "ok" /\ PatternOf(resF) = UNegFallback(a))

\* C8: for all int128 a, b, a * b computed without the intrinsic is the value
\* in [-2^127, 2^127 - 1] congruent to the exact product modulo 2^128, with
\* the pattern of the unsigned product of the operands' patterns.
C8_SignedMulTruncates ==
  op = "smul" =>
    /\ resF.st = "ok"
    /\ SWideFits(SValue(resF))
    /\ (SValue(resF) - SValueOf(a) * SValueOf(b)) % Pow2(WideBits) = 0
    /\ UValue(PatternOf(resF)) = (UValue(a) * UValue(b)) % Pow2(WideBits)

\* a product of two negative operands that does not fit and comes out negative
C8_Witness ==
  /\ op = "smul"
  /\ SValueOf(a) < 0
  /\ SValueOf(b) < 0
  /\ ~SWideFits(SValueOf(a) * SValueOf(b))
  /\ resF.st = "ok"
  /\ SValue(resF) < 0

\* C9: conversion between uint128 and int128 keeps all 128 bits: for every
\* int128 x, int128(uint128(x)) = x and uint128(x) has the low limb and the
\* high-limb pattern of x; for every uint128 y, whatever its top bit,
\* uint128(int128(y)) = y.  Checked of both builds.
C9_ConversionKeepsBits ==
  /\ op = "stous" =>
       /\ resF.st = "ok" /\ resI.st = "ok"
       /\ SValue(resF) = SValueOf(a)
       /\ SValue(resI) = SValueOf(a)
  /\ op = "stou" =>
       /\ resF = Ok(MakeUint128(S64Pattern(SValueOf(a) \div Pow2(LimbBits)),
                                SValueOf(a) % Pow2(LimbBits)))
       /\ resI = resF
  /\ op = "utosu" => (resF = Ok(a) /\ resI = Ok(a))

\* a uint128 with the top bit set that came back from int128 unchanged
C9_Witness ==
  /\ op = "utosu"
  /\ a.hi > Int64Max
  /\ resF = Ok(a)
  /\ resI = Ok(a)

\* the range of a native integer type of w bits
NativeFits(x, w, signed) ==
  IF signed THEN x >= -Pow2(w - 1) /\ x < Pow2(w - 1) ELSE x >= 0 /\ x < Pow2(w)

\* C10: converting a uint128 or an int128 to a native integer type of width
\* w <= 64 yields the low w bits of the low limb in the target's signedness
\* and ignores the high limb (static_cast<uint64_t>(MakeUint128(max, 1)) = 1);
\* hence it keeps the value whenever the value fits the target.
C10_NarrowingTruncates ==
  /\ op \in {"u_to_unsigned", "s_to_unsigned"} =>
       /\ resF = Native(a.lo % Pow2(amount))
       /\ resI = resF
  /\ op \in {"u_to_signed", "s_to_signed"} =>
       /\ resF = Native(IF Bit(a.lo, amount - 1) = 1
                          THEN (a.lo % Pow2(amount)) - Pow2(amount)
                          ELSE a.lo % Pow2(amount))
       /\ resI = resF
  /\ (op = "u_to_unsigned" /\ NativeFits(UValue(a), amount, FALSE))
       => resF.lo = UValue(a)
  /\ (op = "u_to_signed" /\ NativeFits(UValue(a), amount, TRUE))
       => resF.lo = UValue(a)
  /\ (op = "s_to_unsigned" /\ NativeFits(SValueOf(a), amount, FALSE))
       => resF.lo = SValueOf(a)
  /\ (op = "s_to_signed" /\ NativeFits(SValueOf(a), amount, TRUE))
       => resF.lo = SValueOf(a)

\* the example: the high limb is all ones and the 64-bit result is 1
C10_Witness ==
  /\ op = "u_to_unsigned"
  /\ amount = LimbBits
  /\ a = MakeUint128(Uint64Max, 1)
  /\ resF = Native(1)
  /\ resI = Native(1)

----------------------------------------------------------------------------
(* Construction from native integers: from the native integer of `amount`  *)
(* bits whose pattern is the low bits of a.lo, and from the limbs of a     *)

\* a slip: the high limb is left zero whatever the sign
Int128FromSignedFZeroExtends(v) == [lo |-> TruncU(v, LimbBits), hi |-> 0]

\* int128::int128(int v), (long v), (long long v), without the intrinsic
Int128FromSignedF(v) ==
  [lo |-> TruncU(v, LimbBits), hi |-> IF v < 0 THEN S64Not(0) ELSE 0]

\* int128::int128(unsigned int v), (unsigned long v), (unsigned long long v)
Int128FromUnsignedF(v) == [lo |-> v, hi |-> 0]

\* uint128::uint128(int v), (long v), (long long v)
Uint128FromSigned(v) ==
  [lo |-> TruncU(v, LimbBits), hi |-> IF v < 0 THEN Uint64Max ELSE 0]

\* the native integers of w bits with the pattern of the low w bits of p
NativeSigned(p, w) == TruncS(p, w)
NativeUnsigned(p, w) == TruncU(p, w)

InitCtor ==
  /\ a \in Patterns
  /\ b \in [hi : {0}, lo : UInt64]
  /\ amount = 0
  /\ ndebug = TRUE
  /\ op = "init"
  /\ resF = None
  /\ resI = None

\* uint128(v), v signed of w bits; uint128 is the same class in both builds
UFromSigned ==
  /\ op = "init"
  /\ a.hi = 0 /\ b = Zero
  /\ \E w \in Widths :
       /\ amount' = w
       /\ resF' = Ok(Uint128FromSigned(NativeSigned(a.lo, w)))
       /\ resI' = Ok(Uint128FromSigned(NativeSigned(a.lo, w)))
  /\ op' = "u_from_signed"
  /\ UNCHANGED <<a, b, ndebug>>

\* uint128(v), v unsigned of w bits
UFromUnsigned ==
  /\ op = "init"
  /\ a.hi = 0 /\ b = Zero
  /\ \E w \in Widths :
       /\ amount' = w
       /\ resF' = Ok(Uint128FromU64(NativeUnsigned(a.lo, w)))
       /\ resI' = Ok(Uint128FromU64(NativeUnsigned(a.lo, w)))
  /\ op' = "u_from_unsigned"
  /\ UNCHANGED <<a, b, ndebug>>

\* int128(v), v signed of w bits
SFromSigned ==
  /\ op = "init"
  /\ a.hi = 0 /\ b = Zero
  /\ \E w \in Widths :
       /\ amount' = w
       /\ resF' = Ok(LimbsF(Int128FromSignedF(NativeSigned(a.lo, w))))
       /\ resI' = Ok(LimbsI(Int128FromNative(NativeSigned(a.lo, w))))
  /\ op' = "s_from_signed"
  /\ UNCHANGED <<a, b, ndebug>>

\* int128(v), v unsigned of w bits
SFromUnsigned ==
  /\ op = "init"
  /\ a.hi = 0 /\ b = Zero
  /\ \E w \in Widths :
       /\ amount' = w
       /\ resF' = Ok(LimbsF(Int128FromUnsignedF(NativeUnsigned(a.lo, w))))
       /\ resI' = Ok(LimbsI(Int128FromNative(NativeUnsigned(a.lo, w))))
  /\ op' = "s_from_unsigned"
  /\ UNCHANGED <<a, b, ndebug>>

\* int128(x) += int128(y) for the int64_t x, y with the patterns a.lo, b.lo
SAddNative ==
  /\ op = "init"
  /\ a.hi = 0
  /\ LET x == Int128FromSignedF(NativeSigned(a.lo, LimbBits))
         y == Int128FromSignedF(NativeSigned(b.lo, LimbBits))
     IN resF' \in Outcomes(SAddFallbackDefined(x, y), LimbsF(SAddFallback(x, y)))
  /\ LET x == Int128FromNative(NativeSigned(a.lo, LimbBits))
         y == Int128FromNative(NativeSigned(b.lo, LimbBits))
     IN resI' \in Outcomes(SAddIntrinsicDefined(x, y), LimbsI(SAddIntrinsic(x, y)))
  /\ op' = "s_add_native"
  /\ UNCHANGED <<a, b, amount, ndebug>>

\* uint128(x) += uint128(y) for the uint64_t x = a.lo, y = b.lo
UAddNative ==
  /\ op = "init"
  /\ a.hi = 0
  /\ resF' = Ok(UAddFallback(Uint128FromU64(a.lo), Uint128FromU64(b.lo)))
  /\ resI' = Ok(UAddIntrinsic(Uint128FromU64(a.lo), Uint128FromU64(b.lo)))
  /\ op' = "u_add_native"
  /\ UNCHANGED <<a, b, amount, ndebug>>

\* Uint128High64 and Uint128Low64 of MakeUint128(h, l), h = a.hi, l = a.lo
UMakeLimbs ==
  /\ op = "init"
  /\ b = Zero
  /\ LET v == MakeUint128(a.hi, a.lo)
     IN /\ resF' = Ok([hi |-> Uint128High64(v), lo |-> Uint128Low64(v)])
        /\ resI' = Ok([hi |-> Uint128High64(v), lo |-> Uint128Low64(v)])
  /\ op' = "u_make"
  /\ UNCHANGED <<a, b, amount, ndebug>>

\* Int128High64 and Int128Low64 of MakeInt128(h, l), h the int64_t with the
\* pattern a.hi, l = a.lo
SMakeLimbs ==
  /\ op = "init"
  /\ b = Zero
  /\ resF' = Ok(LimbsF(MakeInt128(BitCastToSigned(a.hi), a.lo)))
  /\ resI' = Ok(LimbsI(MakeInt128Intrinsic(BitCastToSigned(a.hi), a.lo)))
  /\ op' = "s_make"
  /\ UNCHANGED <<a, b, amount, ndebug>>

NextCtor ==
  \/ UFromSigned \/ UFromUnsigned \/ SFromSigned \/ SFromUnsigned
  \/ SAddNative \/ UAddNative
  \/ UMakeLimbs \/ SMakeLimbs

SpecCtor == InitCtor /\ [][NextCtor]_vars

\* the native integers the constructors of a state were given
CtorSigned == NativeSigned(a.lo, amount)
CtorUnsigned == NativeUnsigned(a.lo, amount)

\* C11: constructing an int128 or a uint128 from a native signed integer v
\* sign-extends: the low limb is the two's-complement pattern of v, the high
\* limb is all ones when v < 0 and zero otherwise, so int128(v) has the value
\* v and uint128(v) the value v mod 2^128; constructing from a native unsigned
\* integer gives a zero high limb.  Checked of both builds.
C11_ConstructionSignExtends ==
  /\ op = "s_from_signed" =>
       /\ resF = Ok([hi |-> IF CtorSigned < 0 THEN -1 ELSE 0,
                     lo |-> CtorSigned % Pow2(LimbBits)])
       /\ resI = resF
       /\ SValue(resF) = CtorSigned
  /\ op = "u_from_signed" =>
       /\ resF = Ok([hi |-> IF CtorSigned < 0 THEN Uint64Max ELSE 0,
                     lo |-> CtorSigned % Pow2(LimbBits)])
       /\ resI = resF
       /\ UValue(resF) = CtorSigned % Pow2(WideBits)
  /\ op \in {"s_from_unsigned", "u_from_unsigned"} =>
       /\ resF = Ok([hi |-> 0, lo |-> CtorUnsigned])
       /\ resI = resF

\* an int128 built from a negative integer narrower than a limb
C11_Witness ==
  /\ op = "s_from_signed"
  /\ amount < LimbBits
  /\ CtorSigned < -1
  /\ resF.hi = -1
  /\ resI.hi = -1
  /\ resF.lo > Int64Max

\* C16: adding two values that each fit a native 64-bit integer does not wrap
\* at the 64-bit boundary: int128(x) + int128(y) has the value x + y for all
\* int64_t x, y and uint128(x) + uint128(y) has the value x + y for all
\* uint64_t x, y; int128(1) += INT64_MAX is 2^63 and uint128(1) += UINT64_MAX
\* is 2^64 = MakeUint128(1, 0).  Checked of both builds.
C16_NoWrapAtLimb ==
  /\ op = "s_add_native" =>
       /\ resF.st = "ok" /\ resI.st = "ok"
       /\ SValue(resF) = NativeSigned(a.lo, LimbBits) + NativeSigned(b.lo, LimbBits)
       /\ SValue(resI) = NativeSigned(a.lo, LimbBits) + NativeSigned(b.lo, LimbBits)
       /\ (a.lo = 1 /\ b.lo = Int64Max) => resF = Ok(MakeInt128(0, Int64Max + 1))
  /\ op = "u_add_native" =>
       /\ resF.st = "ok" /\ resI.st = "ok"
       /\ UValue(resF) = a.lo + b.lo
       /\ UValue(resI) = a.lo + b.lo
       /\ (a.lo = 1 /\ b.lo = Uint64Max) => resF = Ok(MakeUint128(1, 0))

\* the signed example of main: 1 += INT64_MAX lands above INT64_MAX
C16_Witness ==
  /\ op = "s_add_native"
  /\ a.lo = 1
  /\ b.lo = Int64Max
  /\ resF = Ok(MakeInt128(0, Int64Max + 1))
  /\ resI = resF

\* C17: limb construction and access round-trip in both builds:
\* Uint128High64(MakeUint128(h, l)) = h, Uint128Low64(MakeUint128(h, l)) = l,
\* Int128High64(MakeInt128(h, l)) = h and Int128Low64(MakeInt128(h, l)) = l,
\* also where the value is one __int128 and the limbs are recomputed; the
\* value is h * 2^64 + l, h unsigned for uint128 and signed for int128.
C17_LimbsRoundTrip ==
  /\ op = "u_make" =>
       /\ resF = Ok([hi |-> a.hi, lo |-> a.lo])
       /\ resI = resF
       /\ Uint128ToNative(MakeUint128(a.hi, a.lo)) = a.hi * Pow2(LimbBits) + a.lo
  /\ op = "s_make" =>
       /\ resF = Ok([hi |-> BitCastToSigned(a.hi), lo |-> a.lo])
       /\ resI = resF
       /\ MakeInt128Intrinsic(BitCastToSigned(a.hi), a.lo).v
            = BitCastToSigned(a.hi) * Pow2(LimbBits) + a.lo

\* a negative int128 whose low limb has the top bit set, with the intrinsic
C17_Witness ==
  /\ op = "s_make"
  /\ a.hi > Int64Max
  /\ a.lo > Int64Max
  /\ resI = Ok([hi |-> a.hi - Pow2(LimbBits), lo |-> a.lo])

----------------------------------------------------------------------------
(* Comparisons.  A bool is 1 or 0; std::strong_ordering::less, equal and   *)
(* greater are -1, 0 and 1.  `intrinsic` selects the branch of the #if.    *)

\* a slip: only the low limbs are compared
UEqLowOnly(lhs, rhs, intrinsic) == Uint128Low64(lhs) = Uint128Low64(rhs)

\* operator==(uint128, uint128)
UEq(lhs, rhs, intrinsic) ==
  IF intrinsic
    THEN Uint128ToNative(lhs) = Uint128ToNative(rhs)
    ELSE Uint128Low64(lhs) = Uint128Low64(rhs)
         /\ Uint128High64(lhs) = Uint128High64(rhs)

\* a slip: the low limbs are compared although the high limbs differ
ULtLowFirst(lhs, rhs, intrinsic) ==
  IF Uint128Low64(lhs) = Uint128Low64(rhs)
    THEN Uint128High64(lhs) < Uint128High64(rhs)
    ELSE Uint128Low64(lhs) < Uint128Low64(rhs)

\* operator<(uint128, uint128)
ULt(lhs, rhs, intrinsic) ==
  IF intrinsic
    THEN Uint128ToNative(lhs) < Uint128ToNative(rhs)
    ELSE IF Uint128High64(lhs) = Uint128High64(rhs)
           THEN Uint128Low64(lhs) < Uint128Low64(rhs)
           ELSE Uint128High64(lhs) < Uint128High64(rhs)

\* operator==, !=, <, >, <=, >= (uint128, uint128)
URel(rel, lhs, rhs, intrinsic) ==
  CASE rel = "eq" -> UEq(lhs, rhs, intrinsic)
    [] rel = "ne" -> ~UEq(lhs, rhs, intrinsic)
    [] rel = "lt" -> ULt(lhs, rhs, intrinsic)
    [] rel = "gt" -> ULt(rhs, lhs, intrinsic)
    [] rel = "le" -> ~ULt(rhs, lhs, intrinsic)
    [] rel = "ge" -> ~ULt(lhs, rhs, intrinsic)

\* operator<=>(uint128, uint128)
UCmp(lhs, rhs, intrinsic) ==
  IF intrinsic
    THEN IF Uint128ToNative(lhs) < Uint128ToNative(rhs) THEN -1
         ELSE IF Uint128ToNative(lhs) > Uint128ToNative(rhs) THEN 1
         ELSE 0
    ELSE IF Uint128High64(lhs) < Uint128High64(rhs) THEN -1
         ELSE IF Uint128High64(lhs) > Uint128High64(rhs) THEN 1
         ELSE IF Uint128Low64(lhs) < Uint128Low64(rhs) THEN -1
         ELSE IF Uint128Low64(lhs) > Uint128Low64(rhs) THEN 1
         ELSE 0

\* operator==(int128, int128), without the intrinsic
SEqF(lhs, rhs) ==
  Int128Low64(lhs) = Int128Low64(rhs) /\ Int128High64(lhs) = Int128High64(rhs)

\* a slip: the high limbs are compared as unsigned integers
SLtFUnsignedHigh(lhs, rhs) ==
  IF Int128High64(lhs) = Int128High64(rhs)
    THEN Int128Low64(lhs) < Int128Low64(rhs)
    ELSE S64Pattern(Int128High64(lhs)) < S64Pattern(Int128High64(rhs))

\* operator<(int128, int128), without the intrinsic
SLtF(lhs, rhs) ==
  IF Int128High64(lhs) = Int128High64(rhs)
    THEN Int128Low64(lhs) < Int128Low64(rhs)
    ELSE Int128High64(lhs) < Int128High64(rhs)

\* operator>(int128, int128), without the intrinsic
SGtF(lhs, rhs) ==
  IF Int128High64(lhs) = Int128High64(rhs)
    THEN Int128Low64(lhs) > Int128Low64(rhs)
    ELSE Int128High64(lhs) > Int128High64(rhs)

\* operator==, !=, <, >, <=, >= (int128, int128), without the intrinsic
SRelF(rel, lhs, rhs) ==
  CASE rel = "eq" -> SEqF(lhs, rhs)
    [] rel = "ne" -> ~SEqF(lhs, rhs)
    [] rel = "lt" -> SLtF(lhs, rhs)
    [] rel = "gt" -> SGtF(lhs, rhs)
    [] rel = "le" -> ~SGtF(lhs, rhs)
    [] rel = "ge" -> ~SLtF(lhs, rhs)

\* operator<=>(int128, int128), without the intrinsic; the low limbs are read
\* with Uint128Low64, through the implicit uint128(int128)
SCmpF(lhs, rhs) ==
  IF Int128High64(lhs) < Int128High64(rhs) THEN -1
  ELSE IF Int128High64(lhs) > Int128High64(rhs) THEN 1
  ELSE IF Uint128Low64(Uint128FromInt128F(lhs))
            < Uint128Low64(Uint128FromInt128F(rhs)) THEN -1
  ELSE IF Uint128Low64(Uint128FromInt128F(lhs))
            > Uint128Low64(Uint128FromInt128F(rhs)) THEN 1
  ELSE 0

\* operator==, !=, <, >, <=, >= (int128, int128), with the intrinsic
SRelI(rel, x, y) ==
  CASE rel = "eq" -> x.v = y.v
    [] rel = "ne" -> x.v # y.v
    [] rel = "lt" -> x.v < y.v
    [] rel = "gt" -> x.v > y.v
    [] rel = "le" -> x.v <= y.v
    [] rel = "ge" -> x.v >= y.v

\* operator<=>(int128, int128), with the intrinsic
SCmpI(x, y) == IF x.v < y.v THEN -1 ELSE IF x.v > y.v THEN 1 ELSE 0

\* what AbslHashValue hands to H::combine
UHashInput(v, intrinsic) ==
  IF intrinsic THEN <<Uint128ToNative(v)>>
               ELSE <<Uint128High64(v), Uint128Low64(v)>>
SHashInputF(v) == <<Int128High64(v), Int128Low64(v)>>
SHashInputI(x) == <<x.v>>

Relations == {"eq", "ne", "lt", "gt", "le", "ge"}

\* limbs on either side of the sign bit and at the ends of the range
SignLimbs == {0, 1, Int64Max, Int64Max + 1, Uint64Max}

InitCompare ==
  /\ a \in Patterns
  /\ b \in [hi : SignLimbs, lo : SignLimbs]
  /\ amount = 0
  /\ ndebug = TRUE
  /\ op = "init"
  /\ resF = None
  /\ resI = None

\* a rel b for the uint128 a, b
UCompare ==
  /\ op = "init"
  /\ \E rel \in Relations :
       /\ op' = "u_" \o rel
       /\ resF' = Native(IF URel(rel, a, b, FALSE) THEN 1 ELSE 0)
       /\ resI' = Native(IF URel(rel, a, b, TRUE) THEN 1 ELSE 0)
  /\ UNCHANGED <<a, b, amount, ndebug>>

\* a <=> b for the uint128 a, b
UThreeWay ==
  /\ op = "init"
  /\ op' = "u_cmp"
  /\ resF' = Native(UCmp(a, b, FALSE))
  /\ resI' = Native(UCmp(a, b, TRUE))
  /\ UNCHANGED <<a, b, amount, ndebug>>

\* x rel y for the int128 x, y with the bits of a, b
SCompare ==
  /\ op = "init"
  /\ \E rel \in Relations :
       /\ op' = "s_" \o rel
       /\ resF' = Native(IF SRelF(rel, SignedF(a), SignedF(b)) THEN 1 ELSE 0)
       /\ resI' = Native(IF SRelI(rel, SignedI(a), SignedI(b)) THEN 1 ELSE 0)
  /\ UNCHANGED <<a, b, amount, ndebug>>

\* x <=> y for the int128 x, y with the bits of a, b
SThreeWay ==
  /\ op = "init"
  /\ op' = "s_cmp"
  /\ resF' = Native(SCmpF(SignedF(a), SignedF(b)))
  /\ resI' = Native(SCmpI(SignedI(a), SignedI(b)))
  /\ UNCHANGED <<a, b, amount, ndebug>>

NextCompare == UCompare \/ UThreeWay \/ SCompare \/ SThreeWay

SpecCompare == InitCompare /\ [][NextCompare]_vars

\* what a comparison must return when the first operand's value is x and the
\* second's is y
Expected(rel, x, y) ==
  CASE rel = "eq" -> IF x = y THEN 1 ELSE 0
    [] rel = "ne" -> IF x # y THEN 1 ELSE 0
    [] rel = "lt" -> IF x < y THEN 1 ELSE 0
    [] rel = "gt" -> IF x > y THEN 1 ELSE 0
    [] rel = "le" -> IF x <= y THEN 1 ELSE 0
    [] rel = "ge" -> IF x >= y THEN 1 ELSE 0
    [] rel = "cmp" -> IF x < y THEN -1 ELSE IF x > y THEN 1 ELSE 0

\* C12: for all uint128 a, b, a < b iff (high, low) of a is lexicographically
\* less than that of b, both limbs unsigned, iff the value of a is less than
\* the value of b; ==, !=, >, <=, >= and <=> agree with this order, so exactly
\* one of a < b, a == b, a > b holds.  Checked of both builds.
C12_UnsignedOrder ==
  /\ \A rel \in Relations \cup {"cmp"} :
       op = "u_" \o rel =>
         /\ resF = Native(Expected(rel, UValue(a), UValue(b)))
         /\ resI = resF
  /\ op = "u_lt" =>
       (resF.lo = 1 <=> (a.hi < b.hi \/ (a.hi = b.hi /\ a.lo < b.lo)))

\* a < b decided by the high limbs against the order of the low limbs
C12_Witness ==
  /\ op = "u_lt"
  /\ a.hi < b.hi
  /\ a.lo > b.lo
  /\ resF = Native(1)
  /\ resI = Native(1)

\* C13: for all int128 a, b, a < b iff high(a) < high(b) as signed limbs, or
\* the highs are equal and low(a) < low(b) as unsigned limbs, iff the
\* two's-complement value of a is less than that of b; ==, !=, >, <=, >= and
\* <=> agree with this order.  Checked of both builds.
C13_SignedOrder ==
  /\ \A rel \in Relations \cup {"cmp"} :
       op = "s_" \o rel =>
         /\ resF = Native(Expected(rel, SValueOf(a), SValueOf(b)))
         /\ resI = resF
  /\ op = "s_lt" =>
       (resF.lo = 1 <=>
          \/ BitCastToSigned(a.hi) < BitCastToSigned(b.hi)
          \/ (a.hi = b.hi /\ a.lo < b.lo))

\* a negative value is less than a positive one although its pattern is larger
C13_Witness ==
  /\ op = "s_lt"
  /\ a.hi > Int64Max
  /\ b.hi <= Int64Max
  /\ resF = Native(1)
  /\ resI = Native(1)

\* C20: two uint128 (or two int128) compare equal with == iff their high
\* limbs are equal and their low limbs are equal; hence what is handed to the
\* hash-combine routine is identical for equal values and differs for unequal
\* values.  Checked of both builds.
C20_EqualityIsLimbwise ==
  /\ op = "u_eq" =>
       /\ (resF.lo = 1 <=> (a.hi = b.hi /\ a.lo = b.lo))
       /\ resI = resF
       /\ (resF.lo = 1 <=> UHashInput(a, FALSE) = UHashInput(b, FALSE))
       /\ (resI.lo = 1 <=> UHashInput(a, TRUE) = UHashInput(b, TRUE))
  /\ op = "s_eq" =>
       /\ (resF.lo = 1 <=> (a.hi = b.hi /\ a.lo = b.lo))
       /\ resI = resF
       /\ (resF.lo = 1 <=> SHashInputF(SignedF(a)) = SHashInputF(SignedF(b)))
       /\ (resI.lo = 1 <=> SHashInputI(SignedI(a)) = SHashInputI(SignedI(b)))

\* two values with equal low limbs and different high limbs are unequal
C20_Witness ==
  /\ op = "u_eq"
  /\ a.lo = b.lo
  /\ a.hi # b.hi
  /\ resF = Native(0)
  /\ resI = Native(0)

----------------------------------------------------------------------------
(* Identities of uint128: a - a, a + (-a), ~(~a) *)

\* operator~(uint128)
UNot(val, intrinsic) ==
  IF intrinsic
    THEN Uint128FromNative(UWideNot(Uint128ToNative(val)))
    ELSE MakeUint128(U64Not(Uint128High64(val)), U64Not(Uint128Low64(val)))

\* a - a
USubSelf ==
  /\ op = "init"
  /\ b = Zero
  /\ op' = "u_sub_self"
  /\ resF' = Ok(USubFallback(a, a))
  /\ resI' = Ok(USubIntrinsic(a, a))
  /\ UNCHANGED <<a, b, amount, ndebug>>

\* a + (-a)
UAddNeg ==
  /\ op = "init"
  /\ b = Zero
  /\ op' = "u_add_neg"
  /\ resF' = Ok(UAddFallback(a, UNegFallback(a)))
  /\ resI' = Ok(UAddIntrinsic(a, UNegIntrinsic(a)))
  /\ UNCHANGED <<a, b, amount, ndebug>>

\* ~(~a)
UNotNot ==
  /\ op = "init"
  /\ b = Zero
  /\ op' = "u_not_not"
  /\ resF' = Ok(UNot(UNot(a, FALSE), FALSE))
  /\ resI' = Ok(UNot(UNot(a, TRUE), TRUE))
  /\ UNCHANGED <<a, b, amount, ndebug>>

NextIdentity == USubSelf \/ UAddNeg \/ UNotNot

SpecIdentity == Init /\ [][NextIdentity]_vars

\* C14: for every uint128 a, a - a == 0, a + (-a) == 0 and ~(~a) == a.
\* Checked of both builds, == being the operator of each build.
C14_UnsignedIdentities ==
  /\ op \in {"u_sub_self", "u_add_neg"} =>
       /\ resF.st = "ok" /\ resI.st = "ok"
       /\ UEq([hi |-> resF.hi, lo |-> resF.lo], Zero, FALSE)
       /\ UEq([hi |-> resI.hi, lo |-> resI.lo], Zero, TRUE)
  /\ op = "u_not_not" =>
       /\ resF.st = "ok" /\ resI.st = "ok"
       /\ UEq([hi |-> resF.hi, lo |-> resF.lo], a, FALSE)
       /\ UEq([hi |-> resI.hi, lo |-> resI.lo], a, TRUE)

\* a + (-a) where the low limb of a is zero and the high limb is not: the
\* negation carries into the high limb
C14_Witness ==
  /\ op = "u_add_neg"
  /\ a.lo = 0
  /\ a.hi # 0
  /\ UNegFallback(a).hi = Pow2(LimbBits) - a.hi
  /\ resF = Ok(Zero)

----------------------------------------------------------------------------
(* ++ and --, prefix and postfix, applied in any order to one variable.    *)
(* a is the variable, b its initial value, amount the number of            *)
(* increments less the number of decrements so far; resF and resI are what *)
(* the last operator returned.  A run ends where an operator traps.        *)

MaxNet == 3

InitIncr ==
  /\ b \in EdgePatterns
  /\ a = b
  /\ amount = 0
  /\ ndebug = TRUE
  /\ op \in {"u_var", "s_var"}
  /\ resF = None
  /\ resI = None

\* the operators applied so far were those of uint128 / of int128, and none
\* has trapped
UVariable == op \in {"u_var", "u_pre_inc", "u_post_inc", "u_pre_dec", "u_post_dec"}
SVariable ==
  /\ op \in {"s_var", "s_pre_inc", "s_post_inc", "s_pre_dec", "s_post_dec"}
  /\ resF.st # "trap"
  /\ resI.st # "trap"

\* uint128::operator++() and operator++(int): *this += 1, returning *this or
\* the copy made before
UIncr ==
  /\ UVariable
  /\ amount < MaxNet
  /\ amount' = amount + 1
  /\ a' = UAddFallback(a, Uint128FromSigned(1))
  /\ \E post \in BOOLEAN :
       /\ op' = IF post THEN "u_post_inc" ELSE "u_pre_inc"
       /\ resF' = Ok(IF post THEN a ELSE UAddFallback(a, Uint128FromSigned(1)))
       /\ resI' = Ok(IF post THEN a ELSE UAddIntrinsic(a, Uint128FromSigned(1)))
  /\ UNCHANGED <<b, ndebug>>

\* uint128::operator--() and operator--(int): *this -= 1
UDecr ==
  /\ UVariable
  /\ amount > -MaxNet
  /\ amount' = amount - 1
  /\ a' = USubFallback(a, Uint128FromSigned(1))
  /\ \E post \in BOOLEAN :
       /\ op' = IF post THEN "u_post_dec" ELSE "u_pre_dec"
       /\ resF' = Ok(IF post THEN a ELSE USubFallback(a, Uint128FromSigned(1)))
       /\ resI' = Ok(IF post THEN a ELSE USubIntrinsic(a, Uint128FromSigned(1)))
  /\ UNCHANGED <<b, ndebug>>

\* int128::operator++() and operator++(int): *this += 1 without the
\* intrinsic, ++v_ with it
SIncr ==
  /\ SVariable
  /\ amount < MaxNet
  /\ amount' = amount + 1
  /\ LET x == SignedF(a)
         one == Int128FromSignedF(1)
         y == SignedI(a)
         sum == SAddFallback(x, one)
     IN /\ a' = Uint128FromInt128F(sum)
        /\ \E post \in BOOLEAN :
             /\ op' = IF post THEN "s_post_inc" ELSE "s_pre_inc"
             /\ resF' \in Outcomes(SAddFallbackDefined(x, one),
                                   LimbsF(IF post THEN x ELSE sum))
             /\ resI' \in Outcomes(SWideFits(y.v + 1),
                                   LimbsI(IF post THEN y
                                          ELSE Int128FromNative(SWideWrap(y.v + 1))))
  /\ UNCHANGED <<b, ndebug>>

\* int128::operator--() and operator--(int): *this -= 1 without the
\* intrinsic, --v_ with it
SDecr ==
  /\ SVariable
  /\ amount > -MaxNet
  /\ amount' = amount - 1
  /\ LET x == SignedF(a)
         one == Int128FromSignedF(1)
         y == SignedI(a)
         diff == SSubFallback(x, one)
     IN /\ a' = Uint128FromInt128F(diff)
        /\ \E post \in BOOLEAN :
             /\ op' = IF post THEN "s_post_dec" ELSE "s_pre_dec"
             /\ resF' \in Outcomes(SSubFallbackDefined(x, one),
                                   LimbsF(IF post THEN x ELSE diff))
             /\ resI' \in Outcomes(SWideFits(y.v - 1),
                                   LimbsI(IF post THEN y
                                          ELSE Int128FromNative(SWideWrap(y.v - 1))))
  /\ UNCHANGED <<b, ndebug>>

NextIncr == UIncr \/ UDecr \/ SIncr \/ SDecr

SpecIncr == InitIncr /\ [][NextIncr]_vars

\* C15: for uint128 and int128, after any sequence of ++ and -- (prefix or
\* postfix) on a variable that started at v0, the variable holds
\* v0 + #increments - #decrements wrapped modulo 2^128; a prefix form returns
\* the value after the update and a postfix form the value before it.
C15_IncrementDecrement ==
  /\ UValue(a) = (UValue(b) + amount) % Pow2(WideBits)
  /\ op \notin {"u_var", "s_var"} =>
       /\ resF.st = "ok"
       /\ resI.st = "ok"
       /\ resI = resF
  /\ op \in {"u_pre_inc", "u_pre_dec"} => resF = Ok(a)
  /\ op = "u_post_inc" => UValue(resF) = (UValue(a) - 1) % Pow2(WideBits)
  /\ op = "u_post_dec" => UValue(resF) = (UValue(a) + 1) % Pow2(WideBits)
  /\ op \in {"s_pre_inc", "s_pre_dec"} => PatternOf(resF) = a
  /\ op = "s_post_inc" =>
       UValue(PatternOf(resF)) = (UValue(a) - 1) % Pow2(WideBits)
  /\ op = "s_post_dec" =>
       UValue(PatternOf(resF)) = (UValue(a) + 1) % Pow2(WideBits)

----------------------------------------------------------------------------
(* Construction from floating point.  A double is a sign, a significand    *)
(* and an exponent: here a.hi is the sign bit, a.lo the significand (an    *)
(* integer of MantBits bits, where a double has 53 against the limb's 64)  *)
(* and amount the exponent, so that the double is (-1)^a.hi * a.lo *       *)
(* 2^amount.  Negative exponents give the doubles with a fraction.         *)

MantBits == LimbBits - 1

Doubles == [hi : {0, 1}, lo : 0 .. Pow2(MantBits) - 1]
Exponents == -MantBits .. WideBits

\* a slip: the conversion rounds down, so a negative fraction moves away
\* from zero
FloorOfDouble(d, e) ==
  LET mag == IF e >= 0 THEN d.lo * Pow2(e)
             ELSE IF d.hi = 1 THEN (d.lo + Pow2(-e) - 1) \div Pow2(-e)
             ELSE d.lo \div Pow2(-e)
  IN IF d.hi = 1 THEN -mag ELSE mag

\* a slip: the magnitude is converted and the sign is not put back
TruncateDoubleDropsSign(d, e) ==
  IF e >= 0 THEN d.lo * Pow2(e) ELSE d.lo \div Pow2(-e)

\* static_cast<__int128>(v) of a double v, where it is defined: the integer
\* part of v, the fraction discarded
TruncateDouble(d, e) ==
  LET mag == IF e >= 0 THEN d.lo * Pow2(e) ELSE d.lo \div Pow2(-e)
  IN IF d.hi = 1 THEN -mag ELSE mag

\* int128::int128(double v), with the intrinsic: v_ = static_cast<__int128>(v),
\* undefined when the integer part of v is not an __int128
Int128FromDoubleI(d, e) ==
  Outcomes(SWideFits(TruncateDouble(d, e)),
           LimbsI(Int128FromNative(SWideWrap(TruncateDouble(d, e)))))

\* int128::int128(double v), without the intrinsic, and uint128::uint128(double
\* v): declared in the header and defined outside it; truncation toward zero,
\* undefined outside the range of the type
Int128FromDoubleF(d, e) ==
  LET t == IF d.hi = 1 THEN -(IF e >= 0 THEN d.lo * Pow2(e) ELSE d.lo \div Pow2(-e))
           ELSE IF e >= 0 THEN d.lo * Pow2(e) ELSE d.lo \div Pow2(-e)
  IN Outcomes(SWideFits(t),
              MakeInt128(TruncS(t, WideBits) \div Pow2(LimbBits), t % Pow2(LimbBits)))

Uint128FromDouble(d, e) ==
  LET t == IF d.hi = 1 THEN -(IF e >= 0 THEN d.lo * Pow2(e) ELSE d.lo \div Pow2(-e))
           ELSE IF e >= 0 THEN d.lo * Pow2(e) ELSE d.lo \div Pow2(-e)
  IN Outcomes(t >= 0 /\ t <= UWideMax,
              MakeUint128((t % Pow2(WideBits)) \div Pow2(LimbBits), t % Pow2(LimbBits)))

InitFloat ==
  /\ a \in Doubles
  /\ b = Zero
  /\ amount \in Exponents
  /\ ndebug = TRUE
  /\ op = "init"
  /\ resF = None
  /\ resI = None

\* int128(v) for the double v
SFromDouble ==
  /\ op = "init"
  /\ op' = "s_from_double"
  /\ resF' \in Int128FromDoubleF(a, amount)
  /\ resI' \in Int128FromDoubleI(a, amount)
  /\ UNCHANGED <<a, b, amount, ndebug>>

\* uint128(v) for the double v; uint128 is the same class in both builds
UFromDouble ==
  /\ op = "init"
  /\ op' = "u_from_double"
  /\ resF' \in Uint128FromDouble(a, amount)
  /\ resI' = resF'
  /\ UNCHANGED <<a, b, amount, ndebug>>

NextFloat == SFromDouble \/ UFromDouble

SpecFloat == InitFloat /\ [][NextFloat]_vars

\* x is the integer that the double of the state truncates to: it has the
\* double's sign (or is zero), and its magnitude is the largest integer that
\* does not exceed the double's magnitude
IsTruncationOf(x) ==
  LET mag == IF x < 0 THEN -x ELSE x
  IN /\ (a.hi = 1 => x <= 0) /\ (a.hi = 0 => x >= 0)
     /\ IF amount >= 0
          THEN mag = a.lo * Pow2(amount)
          ELSE mag * Pow2(-amount) <= a.lo /\ a.lo < (mag + 1) * Pow2(-amount)

\* the double of the state is inside the range of int128 / of uint128
DoubleFitsSigned == \E x \in SWideMin .. SWideMax : IsTruncationOf(x)
DoubleFitsUnsigned == \E x \in 0 .. UWideMax : IsTruncationOf(x)

\* C18: constructing a uint128 or int128 from a floating-point value inside
\* the representable range truncates toward zero; for an integer-valued double
\* d the result has the value d, e.g. uint128 of the double 2^64 is
\* MakeUint128(1, 0) and int128 of the double 2^63 is MakeInt128(0, 2^63).
C18_FloatTruncates ==
  /\ (op = "s_from_double" /\ DoubleFitsSigned) =>
       /\ resF.st = "ok" /\ resI.st = "ok"
       /\ IsTruncationOf(SValue(resF))
       /\ IsTruncationOf(SValue(resI))
       /\ (a = [hi |-> 0, lo |-> 1] /\ amount = LimbBits - 1)
            => resI = Ok(MakeInt128(0, Pow2(LimbBits - 1)))
  /\ (op = "u_from_double" /\ DoubleFitsUnsigned) =>
       /\ resF.st = "ok" /\ resI.st = "ok"
       /\ IsTruncationOf(UValue(resF))
       /\ IsTruncationOf(UValue(resI))
       /\ (a = [hi |-> 0, lo |-> 1] /\ amount = LimbBits)
            => resF = Ok(MakeUint128(1, 0))

\* a negative double with a fraction, which truncates up, toward zero
C18_Witness ==
  /\ op = "s_from_double"
  /\ a.hi = 1
  /\ amount < 0
  /\ a.lo % Pow2(-amount) # 0
  /\ a.lo > Pow2(-amount)
  /\ resI.st = "ok"
  /\ SValue(resI) = -(a.lo \div Pow2(-amount))

\* the double -2^63 of the claim: sign set, significand 1, exponent 63
IsMinusTwoTo63 == a = [hi |-> 1, lo |-> 1] /\ amount = LimbBits - 1

\* C19, as claimed: converting the double -9223372036854775808.0 = -2^63 to
\* int128 yields the signed minimum value MakeInt128(INT64_MIN, 0).
C19_AsClaimed ==
  (op = "s_from_double" /\ IsMinusTwoTo63) => resI = Ok(MakeInt128(Int64Min, 0))

\* C19, amended: converting the double -2^63 to int128 yields the value -2^63,
\* which is MakeInt128(-1, 2^63) and not the signed minimum; the signed
\* minimum MakeInt128(INT64_MIN, 0) is what the double -2^127 converts to.
C19_MinusTwoTo63 ==
  /\ (op = "s_from_double" /\ IsMinusTwoTo63) =>
       /\ resI = Ok(MakeInt128(-1, Pow2(LimbBits - 1)))
       /\ SValue(resI) = Int64Min
  /\ (op = "s_from_double" /\ a = [hi |-> 1, lo |-> 1] /\ amount = WideBits - 1) =>
       resI = Ok(MakeInt128(Int64Min, 0))

\* the conversion of the double -2^63 has been made
C19_Witness ==
  /\ op = "s_from_double"
  /\ IsMinusTwoTo63
  /\ resI = Ok(MakeInt128(-1, Pow2(LimbBits - 1)))

----------------------------------------------------------------------------
(* Division and remainder.  operator/ and operator% are defined only when *)
(* the intrinsic exists; they forward to the native operators, which are  *)
(* undefined for a zero divisor and, signed, for Int128Min() / -1.        *)

Magnitude(x) == IF x < 0 THEN -x ELSE x

\* unsigned __int128 / and %
UWideDiv(x, y) == x \div y
UWideRem(x, y) == x % y

\* __int128 / and %: the quotient is rounded toward zero, the remainder
\* takes the sign of the dividend
SWideDiv(x, y) ==
  IF (x < 0) = (y < 0) THEN Magnitude(x) \div Magnitude(y)
  ELSE -(Magnitude(x) \div Magnitude(y))

SWideRem(x, y) ==
  IF x < 0 THEN -(Magnitude(x) % Magnitude(y)) ELSE Magnitude(x) % Magnitude(y)

UDivIntrinsic(lhs, rhs) ==
  Uint128FromNative(UWideDiv(Uint128ToNative(lhs), Uint128ToNative(rhs)))

UModIntrinsic(lhs, rhs) ==
  Uint128FromNative(UWideRem(Uint128ToNative(lhs), Uint128ToNative(rhs)))

\* a slip: the quotient is rounded toward minus infinity
SDivIntrinsicFloors(lhs, rhs) == Int128FromNative(SWideWrap(lhs.v \div rhs.v))

SDivIntrinsic(lhs, rhs) == Int128FromNative(SWideWrap(SWideDiv(lhs.v, rhs.v)))

SModIntrinsic(lhs, rhs) == Int128FromNative(SWideRem(lhs.v, rhs.v))

UDivDefined(rhs) == Uint128ToNative(rhs) # 0
SDivDefined(lhs, rhs) == rhs.v # 0 /\ ~(lhs.v = SWideMin /\ rhs.v = -1)

\* a zero divisor: the build may trap or go on with any value; the model
\* lets it go on with the dividend
UDiv ==
  /\ op = "init"
  /\ op' = "udiv"
  /\ resI' \in (IF UDivDefined(b) THEN {Ok(UDivIntrinsic(a, b))} ELSE Undefined(a))
  /\ UNCHANGED <<a, b, amount, ndebug, resF>>

UMod ==
  /\ op = "init"
  /\ op' = "umod"
  /\ resI' \in (IF UDivDefined(b) THEN {Ok(UModIntrinsic(a, b))} ELSE Undefined(a))
  /\ UNCHANGED <<a, b, amount, ndebug, resF>>

SDiv ==
  /\ op = "init"
  /\ op' = "sdiv"
  /\ LET x == SignedI(a)  y == SignedI(b)
     IN resI' \in (IF y.v = 0 THEN Undefined(LimbsI(x))
                   ELSE Outcomes(SDivDefined(x, y), LimbsI(SDivIntrinsic(x, y))))
  /\ UNCHANGED <<a, b, amount, ndebug, resF>>

SMod ==
  /\ op = "init"
  /\ op' = "smod"
  /\ LET x == SignedI(a)  y == SignedI(b)
     IN resI' \in (IF y.v = 0 THEN Undefined(LimbsI(x))
                   ELSE Outcomes(SDivDefined(x, y), LimbsI(SModIntrinsic(x, y))))
  /\ UNCHANGED <<a, b, amount, ndebug, resF>>

NextDiv == UDiv \/ UMod \/ SDiv \/ SMod

SpecDiv == InitCompare /\ [][NextDiv]_vars

\* the int128 a result of the intrinsic build stands for
ResultSigned(r) == MakeInt128Intrinsic(r.hi, r.lo)

\* C21: with the intrinsic, uint128 a / b for b != 0 is floor(a / b) and
\* a % b is a - b * floor(a / b), so (a / b) * b + (a % b) == a and
\* a % b < b; int128 a / b for b != 0, Int128Min() / -1 excluded, is
\* rounded toward zero and (a / b) * b + (a % b) == a.
C21_Division ==
  /\ (op \in {"udiv", "umod"} /\ b # Zero) =>
       LET x == UValue(a)
           y == UValue(b)
           IsFloor(q) == q * y <= x /\ x < (q + 1) * y
       IN /\ resI.st = "ok"
          /\ op = "udiv" =>
               /\ IsFloor(UValue(resI))
               /\ UAddIntrinsic(UMulIntrinsic(PatternOf(resI), b),
                                UModIntrinsic(a, b)) = a
          /\ op = "umod" =>
               /\ UValue(resI) < y
               /\ \E q \in {(x - UValue(resI)) \div y} :
                    IsFloor(q) /\ UValue(resI) = x - y * q
               /\ UAddIntrinsic(UMulIntrinsic(UDivIntrinsic(a, b), b),
                                PatternOf(resI)) = a
  /\ (op \in {"sdiv", "smod"} /\ b # Zero
        /\ ~(SValueOf(a) = SWideMin /\ SValueOf(b) = -1)) =>
       LET x == SValueOf(a)
           y == SValueOf(b)
           \* q is the exact quotient with its fraction discarded
           IsTruncated(q) ==
             /\ Magnitude(q) * Magnitude(y) <= Magnitude(x)
             /\ Magnitude(x) < (Magnitude(q) + 1) * Magnitude(y)
             /\ q # 0 => (q < 0) = ((x < 0) # (y < 0))
       IN /\ resI.st = "ok"
          /\ op = "sdiv" =>
               /\ IsTruncated(SValue(resI))
               /\ SAddIntrinsic(SMulIntrinsic(ResultSigned(resI), SignedI(b)),
                                SModIntrinsic(SignedI(a), SignedI(b)))
                    = SignedI(a)
          /\ op = "smod" =>
               /\ Magnitude(SValue(resI)) < Magnitude(y)
               /\ \E q \in {(x - SValue(resI)) \div y} :
                    IsTruncated(q) /\ SValue(resI) = x - y * q
               /\ SAddIntrinsic(SMulIntrinsic(SDivIntrinsic(SignedI(a), SignedI(b)),
                                              SignedI(b)),
                                ResultSigned(resI))
                    = SignedI(a)

\* a negative dividend that the divisor does not divide: rounding toward
\* zero and toward minus infinity differ
C21_Witness ==
  /\ op = "sdiv"
  /\ SValueOf(a) < 0
  /\ SValueOf(b) > 1
  /\ SValueOf(a) % SValueOf(b) # 0
  /\ resI.st = "ok"
  /\ SValue(resI) < 0

----------------------------------------------------------------------------
(* The carry and the borrow of the two-limb addition and subtraction *)

\* C22: without the intrinsic, with s the low limbs' sum modulo 2^64, the
\* test s < low(a) of AddResult is true iff low(a) + low(b) >= 2^64 and
\* agrees with s < low(b); the test low(a) < low(b) of SubstructResult is
\* true iff the low limbs' subtraction borrows; the high limb is adjusted
\* by exactly 1 when and only when the test is true.  The signed helpers
\* make the same tests and, where their int64_t arithmetic is defined,
\* give the same limbs.
C22_CarryBorrowExact ==
  /\ op = "uadd" =>
       LET s == resF.lo
           carry == Uint128Low64(a) + Uint128Low64(b) >= Pow2(LimbBits)
       IN /\ resF.st = "ok"
          /\ s = (Uint128Low64(a) + Uint128Low64(b)) % Pow2(LimbBits)
          /\ (s < Uint128Low64(a)) = carry
          /\ (s < Uint128Low64(b)) = (s < Uint128Low64(a))
          /\ resF.hi = (Uint128High64(a) + Uint128High64(b)
                          + (IF carry THEN 1 ELSE 0)) % Pow2(LimbBits)
          /\ SAddFallbackDefined(SignedF(a), SignedF(b)) =>
               PatternOf(LimbsF(SAddFallback(SignedF(a), SignedF(b))))
                 = PatternOf(resF)
  /\ op = "usub" =>
       LET borrow == Uint128Low64(a) - Uint128Low64(b) < 0
       IN /\ resF.st = "ok"
          /\ resF.lo = (Uint128Low64(a) - Uint128Low64(b)) % Pow2(LimbBits)
          /\ (Uint128Low64(a) < Uint128Low64(b)) = borrow
          /\ resF.hi = (Uint128High64(a) - Uint128High64(b)
                          - (IF borrow THEN 1 ELSE 0)) % Pow2(LimbBits)
          /\ SSubFallbackDefined(SignedF(a), SignedF(b)) =>
               PatternOf(LimbsF(SSubFallback(SignedF(a), SignedF(b))))
                 = PatternOf(resF)

\* equal low limbs and equal high limbs: no borrow, and the difference is 0
C22_Witness ==
  /\ op = "usub"
  /\ Uint128Low64(a) = Uint128Low64(b)
  /\ Uint128Low64(a) > 0
  /\ Uint128High64(a) = Uint128High64(b)
  /\ resF = Ok(Zero)

----------------------------------------------------------------------------
(* Unary minus of uint128 against ~a + 1 and 0 - a *)

\* -a
UNeg ==
  /\ op = "init"
  /\ b = Zero
  /\ op' = "u_neg"
  /\ resF' = Ok(UNegFallback(a))
  /\ resI' = Ok(UNegIntrinsic(a))
  /\ UNCHANGED <<a, b, amount, ndebug>>

\* ~a + 1
UNotPlusOne ==
  /\ op = "init"
  /\ b = Zero
  /\ op' = "u_not_plus_one"
  /\ resF' = Ok(UAddFallback(UNot(a, FALSE), Uint128FromU64(1)))
  /\ resI' = Ok(UAddIntrinsic(UNot(a, TRUE), Uint128FromU64(1)))
  /\ UNCHANGED <<a, b, amount, ndebug>>

\* 0 - a
UZeroMinus ==
  /\ op = "init"
  /\ b = Zero
  /\ op' = "u_zero_minus"
  /\ resF' = Ok(USubFallback(Uint128FromU64(0), a))
  /\ resI' = Ok(USubIntrinsic(Uint128FromU64(0), a))
  /\ UNCHANGED <<a, b, amount, ndebug>>

NextNegate == UNeg \/ UNotPlusOne \/ UZeroMinus

SpecNegate == Init /\ [][NextNegate]_vars

\* C23: for every uint128 a, the unary minus of the two-limb build,
\* MakeUint128(~high(a) + (low(a) == 0 ? 1 : 0), ~low(a) + 1), equals
\* ~a + 1 and 0 - a, all three being 2^128 - a modulo 2^128, also when
\* low(a) == 0 and when a == 0.
C23_NegateIsTwosComplement ==
  /\ op \in {"u_neg", "u_not_plus_one", "u_zero_minus"} =>
       /\ resF.st = "ok"
       /\ UValue(resF) = (Pow2(WideBits) - UValue(a)) % Pow2(WideBits)
  /\ op = "u_neg" =>
       /\ resF = Ok(UAddFallback(UNot(a, FALSE), Uint128FromU64(1)))
       /\ resF = Ok(USubFallback(Uint128FromU64(0), a))
       /\ resF.hi = (Uint64Max - Uint128High64(a)
                       + (IF Uint128Low64(a) = 0 THEN 1 ELSE 0)) % Pow2(LimbBits)

\* a low limb of zero under a high limb that is not: the carry reaches the
\* high limb
C23_Witness ==
  /\ op = "u_neg"
  /\ Uint128Low64(a) = 0
  /\ Uint128High64(a) = 1
  /\ resF = Ok(MakeUint128(Uint64Max, 0))

----------------------------------------------------------------------------
(* uint128 shifts by a limb or more *)

\* C24: for every uint128 a and every amount in [64, 127], a << amount has
\* low limb 0 and high limb (low(a) << (amount - 64)) mod 2^64, and
\* a >> amount has high limb 0 and low limb high(a) >> (amount - 64); so
\* a << 64 is MakeUint128(low(a), 0) and a >> 64 is MakeUint128(0, high(a)).
\* Checked of both builds.
C24_WholeLimbShift ==
  /\ (op = "ushl" /\ amount \in LimbBits .. WideBits - 1) =>
       /\ resF.st = "ok"
       /\ resF.lo = 0
       /\ resF.hi = (Uint128Low64(a) * Pow2(amount - LimbBits)) % Pow2(LimbBits)
       /\ amount = LimbBits => resF = Ok(MakeUint128(Uint128Low64(a), 0))
       /\ resI = resF
  /\ (op = "ushr" /\ amount \in LimbBits .. WideBits - 1) =>
       /\ resF.st = "ok"
       /\ resF.hi = 0
       /\ resF.lo = Uint128High64(a) \div Pow2(amount - LimbBits)
       /\ amount = LimbBits => resF = Ok(MakeUint128(0, Uint128High64(a)))
       /\ resI = resF

\* a left shift by exactly one limb of a value with both limbs non-zero
C24_Witness ==
  /\ op = "ushl"
  /\ amount = LimbBits
  /\ Uint128Low64(a) # 0
  /\ Uint128High64(a) # 0
  /\ Uint128High64(a) # Uint128Low64(a)
  /\ resF = Ok(MakeUint128(Uint128Low64(a), 0))

----------------------------------------------------------------------------
(* int128 shifts: the bands of the two-limb build against the native shift *)

\* the result of the two-limb build has the pattern the claim gives
BandsMatchNative ==
  /\ resF.st = "ok"
  /\ op = "sshl" =>
       /\ PatternOf(resF) = UShlFallback(a, amount)
       /\ UValue(PatternOf(resF)) = (UValue(a) * Pow2(amount)) % Pow2(WideBits)
  /\ op = "sshr" =>
       /\ resI.st = "ok"
       /\ PatternOf(resF) = PatternOf(resI)
       /\ SValue(resF) = SValueOf(a) \div Pow2(amount)

\* C25: for every int128 x and every amount in [0, 127], the band
\* boundaries 0, 1, 62, 63, 64, 65, 126 and 127 included, x << amount of the
\* two-limb build has the pattern of uint128(x) << amount, which is
\* (bits(x) * 2^amount) mod 2^128, and x >> amount of the two-limb build has
\* the pattern of the native __int128 arithmetic shift.
C25_BandsMatchNative ==
  (op \in {"sshl", "sshr"} /\ amount \in 0 .. WideBits - 1) => BandsMatchNative

\* what does hold: the same for amounts in [0, 126], and for 127 when the
\* assertion is compiled out
C25_BelowAssertBound ==
  (op \in {"sshl", "sshr"} /\ amount \in 0 .. WideBits - 1
     /\ (ndebug \/ amount < WideBits - 1)) => BandsMatchNative

----------------------------------------------------------------------------
(* The counts of the 64-bit shifts inside the 128-bit shifts *)

\* the counts of the 64-bit shifts that the operation just made executed in
\* the two-limb build; none when the assertion stopped the program
ExecutedShiftCounts ==
  IF resF.st = "abort" THEN {}
  ELSE CASE op \in {"ushl", "ushr"} -> UShiftCounts(amount)
         [] op = "sshl" -> SShlShiftCounts(amount)
         [] op = "sshr" -> SShrShiftCounts(amount)
         [] OTHER -> {}

\* C26: for every amount in [0, 127], every 64-bit shift executed inside
\* the uint128 and int128 shift operators of the two-limb build has a count
\* in [0, 63], so no such shift is undefined; amount 63 is handled by a
\* shift by 32 and then by 31, amounts 64..126 by a shift by amount - 64,
\* and amount 127 by shifts of fewer than 64.
C26_ShiftCountsInRange ==
  (op \in {"ushl", "ushr", "sshl", "sshr"} /\ amount \in 0 .. WideBits - 1) =>
    /\ resF.st # "trap"
    /\ \A c \in ExecutedShiftCounts : c \in 0 .. LimbBits - 1
    /\ (op \in {"sshl", "sshr"} /\ amount = LimbBits - 1) =>
         {HalfBits, HalfBits - 1} \subseteq ExecutedShiftCounts
    /\ (amount \in LimbBits .. WideBits - 2) =>
         amount - LimbBits \in ExecutedShiftCounts

\* the arithmetic shift of a negative value by 63, made of a shift by 32
\* and one by 31
C26_Witness ==
  /\ op = "sshr"
  /\ amount = LimbBits - 1
  /\ SValueOf(a) < 0
  /\ resF.st = "ok"
  /\ resF.hi = -1
  /\ ExecutedShiftCounts = {HalfBits, HalfBits - 1, 1}

----------------------------------------------------------------------------
(* Compound assignment.  Every operator op= is                             *)
(*   *this = *this op other;  return *this;                                *)
(* with other taken by value.  The receiver is the variable a; resF or     *)
(* resI holds what the call returned in the build that ran.                *)

CompoundOps == {"add", "sub", "mul", "div", "mod", "shl", "shr", "and", "or", "xor"}

\* operator/ and operator% exist only with the intrinsic
OpsOf(intrinsic) == IF intrinsic THEN CompoundOps ELSE CompoundOps \ {"div", "mod"}

\* operator|, operator&, operator^ on uint128
UBitwise(o, lhs, rhs, intrinsic) ==
  IF intrinsic
    THEN LET x == Uint128ToNative(lhs)
             y == Uint128ToNative(rhs)
         IN Uint128FromNative(CASE o = "or" -> BitOr(x, y)
                                [] o = "and" -> BitAnd(x, y)
                                [] o = "xor" -> BitXor(x, y))
    ELSE CASE o = "or" -> MakeUint128(U64Or(Uint128High64(lhs), Uint128High64(rhs)),
                                      U64Or(Uint128Low64(lhs), Uint128Low64(rhs)))
           [] o = "and" -> MakeUint128(U64And(Uint128High64(lhs), Uint128High64(rhs)),
                                       U64And(Uint128Low64(lhs), Uint128Low64(rhs)))
           [] o = "xor" -> MakeUint128(U64Xor(Uint128High64(lhs), Uint128High64(rhs)),
                                       U64Xor(Uint128Low64(lhs), Uint128Low64(rhs)))

\* operator|, operator&, operator^ on int128, without and with the intrinsic
SBitwiseF(o, lhs, rhs) ==
  CASE o = "or" -> MakeInt128(S64Or(Int128High64(lhs), Int128High64(rhs)),
                              U64Or(Int128Low64(lhs), Int128Low64(rhs)))
    [] o = "and" -> MakeInt128(S64And(Int128High64(lhs), Int128High64(rhs)),
                               U64And(Int128Low64(lhs), Int128Low64(rhs)))
    [] o = "xor" -> MakeInt128(S64Xor(Int128High64(lhs), Int128High64(rhs)),
                               U64Xor(Int128Low64(lhs), Int128Low64(rhs)))

SBitwiseI(o, lhs, rhs) ==
  LET x == SWidePattern(lhs.v)
      y == SWidePattern(rhs.v)
  IN Int128FromNative(TruncS(CASE o = "or" -> BitOr(x, y)
                               [] o = "and" -> BitAnd(x, y)
                               [] o = "xor" -> BitXor(x, y),
                             WideBits))

\* the outcomes of lhs o rhs, or lhs o n for a shift, on uint128
UBinary(o, lhs, rhs, n, intrinsic) ==
  CASE o = "add" ->
         {Ok(IF intrinsic THEN UAddIntrinsic(lhs, rhs) ELSE UAddFallback(lhs, rhs))}
    [] o = "sub" ->
         {Ok(IF intrinsic THEN USubIntrinsic(lhs, rhs) ELSE USubFallback(lhs, rhs))}
    [] o = "mul" ->
         {Ok(IF intrinsic THEN UMulIntrinsic(lhs, rhs) ELSE UMulFallback(lhs, rhs))}
    [] o = "div" ->
         IF UDivDefined(rhs) THEN {Ok(UDivIntrinsic(lhs, rhs))} ELSE Undefined(lhs)
    [] o = "mod" ->
         IF UDivDefined(rhs) THEN {Ok(UModIntrinsic(lhs, rhs))} ELSE Undefined(lhs)
    [] o = "shl" ->
         IF intrinsic THEN UShlIntrinsicOutcomes(lhs, n) ELSE UShlFallbackOutcomes(lhs, n)
    [] o = "shr" ->
         IF intrinsic THEN UShrIntrinsicOutcomes(lhs, n) ELSE UShrFallbackOutcomes(lhs, n)
    [] OTHER -> {Ok(UBitwise(o, lhs, rhs, intrinsic))}

\* the same on int128, the operands given by their patterns
SBinaryF(o, p, q, n, nd) ==
  LET x == SignedF(p)
      y == SignedF(q)
  IN CASE o = "add" -> Outcomes(SAddFallbackDefined(x, y), LimbsF(SAddFallback(x, y)))
       [] o = "sub" -> Outcomes(SSubFallbackDefined(x, y), LimbsF(SSubFallback(x, y)))
       [] o = "mul" -> {Ok(LimbsF(SMulFallback(x, y)))}
       [] o = "shl" -> SShlFallbackOutcomes(x, n, nd)
       [] o = "shr" -> SShrFallbackOutcomes(x, n, nd)
       [] OTHER -> {Ok(LimbsF(SBitwiseF(o, x, y)))}

SBinaryI(o, p, q, n) ==
  LET x == SignedI(p)
      y == SignedI(q)
  IN CASE o = "add" -> Outcomes(SAddIntrinsicDefined(x, y), LimbsI(SAddIntrinsic(x, y)))
       [] o = "sub" -> Outcomes(SSubIntrinsicDefined(x, y), LimbsI(SSubIntrinsic(x, y)))
       [] o = "mul" -> Outcomes(SMulIntrinsicDefined(x, y), LimbsI(SMulIntrinsic(x, y)))
       [] o = "div" -> IF y.v = 0 THEN Undefined(LimbsI(x))
                       ELSE Outcomes(SDivDefined(x, y), LimbsI(SDivIntrinsic(x, y)))
       [] o = "mod" -> IF y.v = 0 THEN Undefined(LimbsI(x))
                       ELSE Outcomes(SDivDefined(x, y), LimbsI(SModIntrinsic(x, y)))
       [] o = "shl" -> SShlIntrinsicOutcomes(x, n)
       [] o = "shr" -> SShrIntrinsicOutcomes(x, n)
       [] OTHER -> {Ok(LimbsI(SBitwiseI(o, x, y)))}

SBinary(o, p, q, n, nd, intrinsic) ==
  IF intrinsic THEN SBinaryI(o, p, q, n) ELSE SBinaryF(o, p, q, n, nd)

\* *this = r: the receiver takes the pattern of r; a program that stopped
\* assigns nothing
AssignThis(this, r) == IF r.st = "ok" THEN PatternOf(r) ELSE this

\* a slip: the operator returns a copy of the receiver, not a reference
ReturnCopy(this, r) == IF r.st = "ok" THEN Ok(this) ELSE r

\* return *this, from a function returning a reference: what the caller
\* holds is the receiver itself
ReturnThis(this, r) ==
  IF r.st = "ok" THEN [st |-> "ref", hi |-> this.hi, lo |-> this.lo] ELSE r

AssignName(t, o) == t \o "_" \o o \o "_assign"
BinaryName(t, o) == t \o "_" \o o

InitAssign ==
  /\ a \in [hi : SignLimbs, lo : SignLimbs]
  /\ \/ b \in EdgePatterns /\ amount = 0 /\ ndebug = TRUE
     \/ b = Zero /\ amount \in Amounts /\ ndebug \in BOOLEAN
  /\ op = "init"
  /\ resF = None
  /\ resI = None

\* a op= b and a op= amount on a uint128 a
UCompoundAssign ==
  /\ op = "init"
  /\ \E intrinsic \in BOOLEAN : \E o \in OpsOf(intrinsic) :
       \E r \in UBinary(o, a, b, amount, intrinsic) :
         /\ op' = AssignName("u", o)
         /\ a' = AssignThis(a, r)
         /\ IF intrinsic
              THEN resI' = ReturnThis(a', r) /\ resF' = resF
              ELSE resF' = ReturnThis(a', r) /\ resI' = resI
  /\ UNCHANGED <<b, amount, ndebug>>

\* a op= b and a op= amount on an int128 a
SCompoundAssign ==
  /\ op = "init"
  /\ \E intrinsic \in BOOLEAN : \E o \in OpsOf(intrinsic) :
       \E r \in SBinary(o, a, b, amount, ndebug, intrinsic) :
         /\ op' = AssignName("s", o)
         /\ a' = AssignThis(a, r)
         /\ IF intrinsic
              THEN resI' = ReturnThis(a', r) /\ resF' = resF
              ELSE resF' = ReturnThis(a', r) /\ resI' = resI
  /\ UNCHANGED <<b, amount, ndebug>>

\* a op b and a op amount: the operands are taken by value
UBinaryOp ==
  /\ op = "init"
  /\ \E intrinsic \in BOOLEAN : \E o \in OpsOf(intrinsic) :
       \E r \in UBinary(o, a, b, amount, intrinsic) :
         /\ op' = BinaryName("u", o)
         /\ IF intrinsic
              THEN resI' = r /\ resF' = resF
              ELSE resF' = r /\ resI' = resI
  /\ UNCHANGED <<a, b, amount, ndebug>>

SBinaryOp ==
  /\ op = "init"
  /\ \E intrinsic \in BOOLEAN : \E o \in OpsOf(intrinsic) :
       \E r \in SBinary(o, a, b, amount, ndebug, intrinsic) :
         /\ op' = BinaryName("s", o)
         /\ IF intrinsic
              THEN resI' = r /\ resF' = resF
              ELSE resF' = r /\ resI' = resI
  /\ UNCHANGED <<a, b, amount, ndebug>>

NextAssign == UCompoundAssign \/ SCompoundAssign \/ UBinaryOp \/ SBinaryOp

SpecAssign == InitAssign /\ [][NextAssign]_vars

\* what the call returned, in the build that ran
Returned == IF resI # None THEN resI ELSE resF

\* the operation has a value: a shift amount in [0, 127], a divisor not zero
HasValue(o, q, n) ==
  /\ o \in {"shl", "shr"} => n \in 0 .. WideBits - 1
  /\ o \in {"div", "mod"} => UValue(q) # 0

\* z is the pattern of p o q (p o n for a shift), p and q being patterns of
\* uint128 (t = "u") or of int128 (t = "s"), modulo 2^128
IsValueOf(z, t, o, p, q, n) ==
  LET x == UValue(p)
      y == UValue(q)
      sx == SValueOf(p)
      sy == SValueOf(q)
      m == Magnitude(sx) \div Magnitude(sy)
      sq == IF (sx < 0) = (sy < 0) THEN m ELSE -m
  IN CASE o = "add" -> z = (x + y) % Pow2(WideBits)
       [] o = "sub" -> z = (x - y) % Pow2(WideBits)
       [] o = "mul" -> z = (x * y) % Pow2(WideBits)
       [] o = "div" -> z = IF t = "u" THEN x \div y ELSE sq % Pow2(WideBits)
       [] o = "mod" -> z = IF t = "u" THEN x % y ELSE (sx - sy * sq) % Pow2(WideBits)
       [] o = "shl" -> z = (x * Pow2(n)) % Pow2(WideBits)
       [] o = "shr" -> z = IF t = "u" THEN x \div Pow2(n)
                           ELSE (sx \div Pow2(n)) % Pow2(WideBits)
       [] o = "and" -> \A i \in 0 .. WideBits - 1 : Bit(z, i) = Bit(x, i) * Bit(y, i)
       [] o = "or" -> \A i \in 0 .. WideBits - 1 :
                        Bit(z, i) = Bit(x, i) + Bit(y, i) - Bit(x, i) * Bit(y, i)
       [] o = "xor" -> \A i \in 0 .. WideBits - 1 :
                         Bit(z, i) = (Bit(x, i) + Bit(y, i)) % 2

C27_Step ==
  /\ b' = b
  /\ amount' = amount
  /\ ndebug' = ndebug
  /\ \A t \in {"u", "s"} : \A o \in CompoundOps :
       /\ op' = BinaryName(t, o) => a' = a
       /\ op' = AssignName(t, o) =>
            LET r == Returned'
            IN /\ r.st \in {"ref", "trap", "abort"}
               /\ r.st = "ref" => a' = [hi |-> r.hi, lo |-> r.lo]
               /\ r.st # "ref" => a' = a
               /\ ((t = "u" /\ HasValue(o, b, amount)) \/ o \in {"and", "or", "xor"})
                    => r.st = "ref"
               /\ (r.st = "ref" /\ HasValue(o, b, amount))
                    => IsValueOf(UValue(a'), t, o, a, b, amount)

\* C27: every compound assignment a op= b (op one of + - * << >> & | ^,
\* and / and % with the intrinsic) on a uint128 or an int128 leaves in the
\* receiver the value of a op b computed from its previous value, returns a
\* reference to the receiver and changes no other value: b, the amount and
\* the build are as before; the binary operators change neither operand.
C27_CompoundAssignFrame == [][C27_Step]_vars

\* a uint128 doubled in place by *= in the two-limb build, the product
\* carrying into the high limb
C27_Witness ==
  /\ op = "u_mul_assign"
  /\ b = MakeUint128(0, 2)
  /\ a = MakeUint128(1, Uint64Max - 1)
  /\ resF = [st |-> "ref", hi |-> 1, lo |-> Uint64Max - 1]

----------------------------------------------------------------------------
(* The limits: Uint128Max(), Int128Max(), Int128Min() and numeric_limits *)

Uint128Max == MakeUint128(Uint64Max, Uint64Max)

\* a slip: the low limb is the largest int64_t, not the largest uint64_t
Int128MaxSignedLow(intrinsic) ==
  IF intrinsic THEN MakeInt128Intrinsic(Int64Max, Int64Max)
  ELSE MakeInt128(Int64Max, Int64Max)

Int128Max(intrinsic) ==
  IF intrinsic THEN MakeInt128Intrinsic(Int64Max, Uint64Max)
  ELSE MakeInt128(Int64Max, Uint64Max)

Int128Min(intrinsic) ==
  IF intrinsic THEN MakeInt128Intrinsic(Int64Min, 0) ELSE MakeInt128(Int64Min, 0)

LimitNames == {"min", "lowest", "max"}

\* std::numeric_limits<absl::uint128>::min(), lowest() and max()
Uint128Limit(which) ==
  IF which = "max" THEN Uint128Max ELSE Uint128FromSigned(0)

\* std::numeric_limits<absl::int128>::min(), lowest() and max()
Int128Limit(which, intrinsic) ==
  IF which = "max" THEN Int128Max(intrinsic) ELSE Int128Min(intrinsic)

Truth(p) == IF p THEN 1 ELSE 0

\* 0 <= u and u <= Uint128Max() for the uint128 u = a: the two answers
UBounded ==
  /\ op = "init"
  /\ op' = "u_bounded"
  /\ resF' = [st |-> "ok",
              hi |-> Truth(URel("le", Uint128FromSigned(0), a, FALSE)),
              lo |-> Truth(URel("le", a, Uint128Max, FALSE))]
  /\ resI' = [st |-> "ok",
              hi |-> Truth(URel("le", Uint128FromSigned(0), a, TRUE)),
              lo |-> Truth(URel("le", a, Uint128Max, TRUE))]
  /\ UNCHANGED <<a, b, amount, ndebug>>

\* Int128Min() <= v and v <= Int128Max() for the int128 v with the bits of a
SBounded ==
  /\ op = "init"
  /\ op' = "s_bounded"
  /\ resF' = [st |-> "ok",
              hi |-> Truth(SRelF("le", Int128Min(FALSE), SignedF(a))),
              lo |-> Truth(SRelF("le", SignedF(a), Int128Max(FALSE)))]
  /\ resI' = [st |-> "ok",
              hi |-> Truth(SRelI("le", Int128Min(TRUE), SignedI(a))),
              lo |-> Truth(SRelI("le", SignedI(a), Int128Max(TRUE)))]
  /\ UNCHANGED <<a, b, amount, ndebug>>

ULimit ==
  /\ op = "init"
  /\ \E which \in LimitNames :
       /\ op' = "u_limit_" \o which
       /\ resF' = Ok(Uint128Limit(which))
       /\ resI' = Ok(Uint128Limit(which))
  /\ UNCHANGED <<a, b, amount, ndebug>>

SLimit ==
  /\ op = "init"
  /\ \E which \in LimitNames :
       /\ op' = "s_limit_" \o which
       /\ resF' = Ok(LimbsF(Int128Limit(which, FALSE)))
       /\ resI' = Ok(LimbsI(Int128Limit(which, TRUE)))
  /\ UNCHANGED <<a, b, amount, ndebug>>

InitLimits ==
  /\ a \in Patterns
  /\ b = Zero
  /\ amount = 0
  /\ ndebug = TRUE
  /\ op = "init"
  /\ resF = None
  /\ resI = None

NextLimits == UBounded \/ SBounded \/ ULimit \/ SLimit

SpecLimits == InitLimits /\ [][NextLimits]_vars

\* C30: Uint128Max() is 2^128 - 1 and 0 <= u <= Uint128Max() for every
\* uint128 u; Int128Min() is -2^127, Int128Max() is 2^127 - 1 and
\* Int128Min() <= v <= Int128Max() for every int128 v, under the comparison
\* operators of each build; numeric_limits min(), lowest() and max() return
\* 0, 0, Uint128Max() and Int128Min(), Int128Min(), Int128Max().
C30_Limits ==
  /\ op \in {"u_bounded", "s_bounded"} =>
       /\ resF.hi = 1 /\ resF.lo = 1
       /\ resI.hi = 1 /\ resI.lo = 1
  /\ op \in {"u_limit_min", "u_limit_lowest"} =>
       UValue(resF) = 0 /\ UValue(resI) = 0
  /\ op = "u_limit_max" =>
       /\ UValue(resF) = Pow2(WideBits) - 1
       /\ UValue(resI) = Pow2(WideBits) - 1
  /\ op \in {"s_limit_min", "s_limit_lowest"} =>
       /\ SValue(resF) = -Pow2(WideBits - 1)
       /\ SValue(resI) = -Pow2(WideBits - 1)
  /\ op = "s_limit_max" =>
       /\ SValue(resF) = Pow2(WideBits - 1) - 1
       /\ SValue(resI) = Pow2(WideBits - 1) - 1

\* the largest int128 compared with Int128Max() and Int128Min()
C30_Witness ==
  /\ op = "s_bounded"
  /\ SValueOf(a) = Pow2(WideBits - 1) - 1
  /\ resF.hi = 1 /\ resF.lo = 1

----------------------------------------------------------------------------
(* Intermediate int64_t overflow in the signed operators of the two-limb   *)
(* build                                                                   *)

\* the int64_t arithmetic of the operator just applied stays in range
HighLimbDefined ==
  CASE op = "sadd" -> SAddFallbackDefined(SignedF(a), SignedF(b))
    [] op = "ssub" -> SSubFallbackDefined(SignedF(a), SignedF(b))
    [] op = "sneg" -> SNegFallbackDefined(SignedF(a))
    [] OTHER -> TRUE

\* C29: in the two-limb build, int128 +, - and unary - overflow no
\* intermediate int64_t whenever the exact result is an int128: the
\* operator has its value and nothing undefined is executed.
C29_NoIntermediateOverflow ==
  (op \in {"sadd", "ssub", "sneg"} /\ SWideFits(SExact)) =>
    (HighLimbDefined /\ resF.st = "ok")

\* what does hold: unary minus, and + and - with the intrinsic, are defined
\* whenever the exact result is an int128
C29_NegateAndIntrinsic ==
  (op \in {"sadd", "ssub", "sneg"} /\ SWideFits(SExact)) =>
    /\ resI.st = "ok"
    /\ op = "sneg" => (HighLimbDefined /\ resF.st = "ok")

----------------------------------------------------------------------------
(* int128 to float, double and long double, by way of the absolute value. *)
(* The conversion of a negative value other than Int128Min() is           *)
(*   -static_cast<double>(-*this)                                         *)
(* a nested call of the same conversion on the negated value; the other   *)
(* values are converted as low + high * 2^64.  The variable a is *this of *)
(* the running call, b the value the outermost call was given, amount the *)
(* number of nested calls.                                                *)

\* the nesting the model follows a conversion to
MaxDepth == 3

\* the number of bits of a non-negative integer
BitLength(m) ==
  CHOOSE k \in 0 .. WideBits + 2 : m < Pow2(k) /\ (k = 0 \/ m >= Pow2(k - 1))

\* static_cast<double>(x) of an integer x: the nearest double, a tie going to
\* the even significand
RoundDouble(x) ==
  LET m == Magnitude(x)
      drop == IF BitLength(m) > MantBits THEN BitLength(m) - MantBits ELSE 0
      q == m \div Pow2(drop)
      rest == m % Pow2(drop)
      up == drop > 0 /\ (2 * rest > Pow2(drop) \/ (2 * rest = Pow2(drop) /\ q % 2 = 1))
      r == (IF up THEN q + 1 ELSE q) * Pow2(drop)
  IN IF x < 0 THEN -r ELSE r

\* the int128 with the pattern p, in the build
SignedOf(p, intrinsic) == IF intrinsic THEN SignedI(p) ELSE SignedF(p)

\* a slip: Int128Min() is not set apart
NegatesFirstAnyNegative(p, intrinsic) ==
  IF intrinsic THEN SignedI(p).v < 0 ELSE Int128High64(SignedF(p)) < 0

\* hi_ < 0 && *this != Int128Min()  (v_ < 0 with the intrinsic)
NegatesFirst(p, intrinsic) ==
  IF intrinsic
    THEN SignedI(p).v < 0 /\ SRelI("ne", SignedI(p), Int128Min(TRUE))
    ELSE Int128High64(SignedF(p)) < 0 /\ SRelF("ne", SignedF(p), Int128Min(FALSE))

\* static_cast<double>(lo_) + static_cast<double>(hi_) * pow_2_64
Int128ToDoubleDirect(p, intrinsic) ==
  LET low == IF intrinsic THEN Int128Low64Intrinsic(SignedI(p))
             ELSE Int128Low64(SignedF(p))
      high == IF intrinsic THEN Int128High64Intrinsic(SignedI(p))
              ELSE Int128High64(SignedF(p))
  IN RoundDouble(RoundDouble(low) + RoundDouble(high) * Pow2(LimbBits))

\* -*this, in the build: its outcomes
NegateOutcomes(p, intrinsic) ==
  IF intrinsic
    THEN Outcomes(SNegIntrinsicDefined(SignedI(p)), LimbsI(SNegIntrinsic(SignedI(p))))
    ELSE Outcomes(SNegFallbackDefined(SignedF(p)), LimbsF(SNegFallback(SignedF(p))))

Position(intrinsic, at) == (IF intrinsic THEN "i_" ELSE "f_") \o at

InitToDouble ==
  /\ b \in Patterns
  /\ a = b
  /\ amount = 0
  /\ ndebug = TRUE
  /\ op = "init"
  /\ resF = None
  /\ resI = None

\* a call, the outermost or a nested one, takes the branch that negates:
\* -*this is evaluated and the conversion is called on it
SToDoubleNegate ==
  \E intrinsic \in BOOLEAN :
    /\ op \in {"init", Position(intrinsic, "nested")}
    /\ amount < MaxDepth
    /\ NegatesFirst(a, intrinsic)
    /\ \E r \in NegateOutcomes(a, intrinsic) :
         IF r.st = "ok"
           THEN /\ a' = PatternOf(r)
                /\ amount' = amount + 1
                /\ op' = Position(intrinsic, "nested")
           ELSE /\ op' = Position(intrinsic, "trap")
                /\ UNCHANGED <<a, amount>>
    /\ UNCHANGED <<b, ndebug, resF, resI>>

\* a call takes the branch that converts the limbs directly
SToDoubleDirect ==
  \E intrinsic \in BOOLEAN :
    /\ op \in {"init", Position(intrinsic, "nested")}
    /\ ~NegatesFirst(a, intrinsic)
    /\ op' = Position(intrinsic, "direct")
    /\ IF intrinsic
         THEN resI' = Native(Int128ToDoubleDirect(a, TRUE)) /\ resF' = resF
         ELSE resF' = Native(Int128ToDoubleDirect(a, FALSE)) /\ resI' = resI
    /\ UNCHANGED <<a, b, amount, ndebug>>

\* the callers of the nested calls negate what they are returned
SToDoubleReturn ==
  \E intrinsic \in BOOLEAN :
    /\ op = Position(intrinsic, "direct")
    /\ amount > 0
    /\ op' = Position(intrinsic, "done")
    /\ LET sign == IF amount % 2 = 1 THEN -1 ELSE 1
       IN IF intrinsic
            THEN resI' = Native(sign * resI.lo) /\ resF' = resF
            ELSE resF' = Native(sign * resF.lo) /\ resI' = resI
    /\ UNCHANGED <<a, b, amount, ndebug>>

NextToDouble == SToDoubleNegate \/ SToDoubleDirect \/ SToDoubleReturn

SpecToDouble == InitToDouble /\ [][NextToDouble]_vars

\* the double the conversion returned, in the build that ran
Converted == IF resI # None THEN resI.lo ELSE resF.lo

\* C28: the conversion of an int128 to float, double or long double
\* negates its operand only when the value is negative and is not
\* Int128Min(); Int128Min() and the non-negative values are converted as
\* low + high * 2^64.  So unary minus is never given Int128Min() and is
\* never undefined, the negated value is strictly positive, and there is
\* exactly one nested call for an operand that is negated, none otherwise.
C28_NegatesOnlyProperNegatives ==
  /\ op \notin {"f_trap", "i_trap"}
  /\ amount <= 1
  /\ op \in {"f_nested", "i_nested"} =>
       /\ amount = 1
       /\ SValueOf(b) < 0
       /\ SValueOf(b) # -Pow2(WideBits - 1)
       /\ SValueOf(a) = -SValueOf(b)
       /\ SValueOf(a) > 0
  /\ op \in {"f_direct", "i_direct"} =>
       /\ amount = 0 <=> (SValueOf(b) >= 0 \/ SValueOf(b) = -Pow2(WideBits - 1))
       /\ amount = 0 => a = b
       /\ SValueOf(a) = -Pow2(WideBits - 1) => Converted = -Pow2(WideBits - 1)
       /\ SValueOf(a) >= 0 => Converted >= 0
  /\ op \in {"f_done", "i_done"} =>
       /\ amount = 1
       /\ SValueOf(b) < 0
       /\ Converted < 0

\* -1 converted in the two-limb build: negated once, converted as 1 and
\* negated back
C28_Witness ==
  /\ op = "f_done"
  /\ SValueOf(b) = -1
  /\ SValueOf(a) = 1
  /\ amount = 1
  /\ resF = Native(-1)

====
